---- MODULE Spec2Model ----
(***************************************************************************)
(* swaynyaad: a status bar hub for sway.  Four listener tasks (compositor, *)
(* timer, mixer, power) write a shared state record behind one RwLock and  *)
(* send tagged notifications on one unbounded mpsc channel.  The           *)
(* dispatcher (app.rs main_loop) drains the channel, reconciles the set of *)
(* per-output bar windows on Outputs notifications and forwards every      *)
(* other notification to every bar window.                                 *)
(*                                                                         *)
(* A step of a task is the code it runs from one await to the next, with   *)
(* one exception: where a task keeps the write guard while it goes on to   *)
(* send or to read a device, the step ends with the guard held, so that    *)
(* the states in which the guard is held are states of the model.          *)
(***************************************************************************)
EXTENDS Integers, Sequences, FiniteSets, TLC

(***************************************************************************)
(* Bounds of the model.                                                    *)
(***************************************************************************)
\* compositor events the sway listener takes from its subscription
MaxSwayEvents == 1
\* timer ticks after the first loop iteration
MaxTicks == 1
\* iterations of the mixer loop
MaxAlsaLoops == 2
\* wake-ups of the power listener after the initial read
MaxWakes == 1
\* Show messages the bar sends to its changer
MaxShows == 2
\* messages waiting in the changer's input queue
MaxPending == 2
\* the changer's one-second interval, in steps of the model's clock
IntervalTicks == 2
\* the poll descriptors of the mixer
NumFds == 2

\* output names the compositor and the display server may report
Names == {"eDP-1", "HDMI-1"}

Listeners == {"sway", "time", "sound", "upower"}

\* the four listener tasks and the mixer loop the sound listener spawns
Tasks == Listeners \cup {"alsa"}

PulseKinds == {"Sink", "Source"}

NoErr == "none"

(***************************************************************************)
(* bar.rs AppInput: the notification enumeration.  outs is the payload of  *)
(* Outputs, pk the payload of Pulse; from and seq record which listener    *)
(* sent the value and as its how-manieth send (history, not program data). *)
(***************************************************************************)
AppInput(kind, outs, pk, from, seq) ==
    [kind |-> kind, outs |-> outs, pk |-> pk, from |-> from, seq |-> seq]

NoEvent == AppInput("None", {}, "-", "-", 0)

\* what a bar window is handed: event.clone()
Payload(e) == [kind |-> e.kind, outs |-> e.outs, pk |-> e.pk]

VARIABLES
    \* ---- the unified channel and its ends
    chan,        \* mpsc::unbounded_channel: the queued AppInput values
    sent,        \* per listener: how many values it has sent (history)
    recvLog,     \* per listener: seq numbers in the order the dispatcher dequeued them (history)
    \* ---- the dispatcher (main_loop)
    dpc,         \* "init" | "recv" | "forward" | "add" | "failed" | "aborted"
    derr,        \* the error main_loop returned, NoErr while running
    ev,          \* the notification being processed
    windows,     \* HashMap<String, Controller<AppModel>>: output name -> bar window instance
    fwdTodo,     \* forward_event: windows not yet handed the current notification
    addTodo,     \* adjust_windows: the collected `added` names not yet visited
    mon,         \* adjust_windows: connectors of the monitors GDK reported
    emitted,     \* what forward_event emitted for the current notification (history)
    snap,        \* the window instances alive when the current notification was dequeued (history)
    lastOutputs, \* name set of the most recent Outputs notification dequeued (history)
    resolvableAt,\* per name: was it among GDK's monitors when adjust_windows last visited it as added (history)
    skipped,     \* names adjust_windows skipped with a warning for the current notification (history)
    survivors,   \* names of the current Outputs notification that already had a window (history)
    everSkipped, \* names adjust_windows has skipped with a warning at some time (history)
    inbox,       \* per bar window: the values given to its input sender, oldest first
    \* ---- shared state and its lock
    st,          \* AppState behind Arc<RwLock<..>>
    wlock,       \* the task holding the write guard, "none" if no one
    poisoned,    \* a task panicked while it held the write guard
    \* ---- listeners
    lpc,         \* per task: where it is
    lerr,        \* per task: the error it returned, NoErr otherwise
    budget,      \* per task: environment stimuli still to come within the bounds
    sret,        \* sway listener: where the running fetch returns to
    inq,         \* sway listener: the `layouts` list of the running input fetch
    fetchNo,     \* sway listener: number of workspace fetches so far (history)
    swayEv,      \* sway listener: what the subscription yielded last (history)
    meminfo,     \* timer listener: the lines of /proc/meminfo as last opened (history)
    pchan,       \* sound listener: the internal channel from the mixer loop to the drain task
    dkind,       \* sound listener: the kind whose changed record is about to be announced
    lastRaw,     \* sound listener, per kind: the element state the last drained record was computed from (history)
    drained,     \* sound listener, per kind: how many records the drain task has taken (history)
    futs,        \* mixer loop: sub-tasks spawned by the running iteration that wait on their descriptor
    orphans,     \* mixer loop: sub-tasks spawned by earlier iterations that still wait on their descriptor
    refused,     \* mixer loop: a sub-task of the running iteration has ended at its registration
    permit,      \* power listener: the Notify holds a stored wake
    reading,     \* power listener: what the device reported at the last read (history)
    visible,     \* changer: the window is shown
    cin,         \* changer: the messages sent to the component and not yet handled
    watcher,     \* changer: the Notify holds a stored wake
    elapsed,     \* changer: clock steps since the watcher task started its timeout
    sinceShow,   \* changer: clock steps since a Show was last handled, at most IntervalTicks (history)
    shows,       \* changer: Show messages the bar may still send
    pchanged     \* power listener: the `changed` flag of the running upower_state call

dvars == <<dpc, derr, ev, windows, fwdTodo, addTodo, mon, emitted, snap,
           lastOutputs, resolvableAt, skipped, survivors, everSkipped, inbox>>
cvars == <<chan, sent, recvLog>>
svars == <<st, wlock, poisoned>>
tvars == <<lpc, lerr, budget>>
swayLocal == <<sret, inq, fetchNo, swayEv>>
timeLocal == <<meminfo>>
waitLocal == <<futs, orphans, refused>>
soundLocal == <<pchan, dkind, lastRaw, drained, waitLocal>>
powerLocal == <<permit, pchanged, reading>>
changerLocal == <<visible, cin, watcher, elapsed, sinceShow, shows>>
lvars == <<tvars, swayLocal, soundLocal, powerLocal, timeLocal, changerLocal>>
vars == <<cvars, dvars, svars, lvars>>

(***************************************************************************)
(* The channel.                                                            *)
(***************************************************************************)
\* the receiver is dropped when main_loop returns
RxClosed == dpc \in {"failed", "aborted"}

\* a task that has returned (or panicked) has dropped what it owned
Ended(t) == lpc[t] \in {"failed", "done"}

\* all senders dropped: listeners::start drops the original after cloning
AllSendersDropped == \A t \in Listeners : Ended(t)

\* std::process::abort() ends every task
Running == dpc # "aborted"

\* UnboundedSender::send appends; UnboundedReceiver::recv takes the oldest
Enqueue(q, m) == Append(q, m)

\* a faulty receiver: it takes the newest value
NewestPos(q) == Len(q)

DequeuePos(q) == 1

Dequeued(q) == q[DequeuePos(q)]

Remaining(q) ==
    [i \in 1..(Len(q) - 1) |-> IF i < DequeuePos(q) THEN q[i] ELSE q[i + 1]]

\* a value without payload, and the two that carry one
Msg(kind) == <<kind, {}, "-">>
OutputsMsg(outs) == <<"Outputs", outs, "-">>
PulseMsg(k) == <<"Pulse", {}, k>>

RECURSIVE EnqueueAll(_, _, _, _)
EnqueueAll(q, t, n, ms) ==
    IF ms = <<>>
    THEN q
    ELSE EnqueueAll(Enqueue(q, AppInput(ms[1][1], ms[1][2], ms[1][3], t, n + 1)),
                    t, n + 1, Tail(ms))

\* tx.send(..) by listener t of the values ms, in this order
Sent(t, ms) ==
    /\ chan' = EnqueueAll(chan, t, sent[t], ms)
    /\ sent' = [sent EXCEPT ![t] = @ + Len(ms)]
    /\ UNCHANGED recvLog

(***************************************************************************)
(* The RwLock around AppState, and how a task moves.                       *)
(***************************************************************************)
\* readers hold their guard only within one step, so a writer waits for
\* another writer only
CanWrite == wlock = "none" /\ ~poisoned
CanRead == wlock = "none" /\ ~poisoned

\* a guard that is never dropped
Kept(holder) == holder

\* the write guard of `holder` goes out of scope
Released(holder) == "none"

Goto(t, pc) ==
    /\ lpc' = [lpc EXCEPT ![t] = pc]
    /\ UNCHANGED lerr

\* a task returns Err(e)
Fail(t, e) ==
    /\ lpc' = [lpc EXCEPT ![t] = "failed"]
    /\ lerr' = [lerr EXCEPT ![t] = e]

(***************************************************************************)
(* AppState::default() and the state after main_loop has spawned the       *)
(* listeners.                                                              *)
(***************************************************************************)
\* the four fields workspace::fetch writes; each holds the number of the fetch
\* its value was computed by (0: the default value)
WsRecord(urgent, existing, focused, screens) ==
    [urgent |-> urgent, existing |-> existing, focused |-> focused,
     screens |-> screens]

XkbLayout(name, description) == [name |-> name, description |-> description]

\* state.rs Pulse and Power
Pulse(muted, volume, icon) == [muted |-> muted, volume |-> volume, icon |-> icon]

\* an icon name is stem, then the level if there is one (-1: none), then tail
IconName(stem, level, tail) == [stem |-> stem, level |-> level, tail |-> tail]

Power(present, charging, level, icon) ==
    [present |-> present, charging |-> charging, level |-> level, icon |-> icon]

\* no read of the device yet
NoReading == [present |-> FALSE, level |-> 0, state |-> "-", kind |-> "-"]

\* #[derive(Default)] of AppState; time is the number of the tick that wrote
\* it, load_average the tick whose sample it is, memory_usage the pair
\* (available_ram, total_ram)
DefaultState ==
    [layout |-> XkbLayout(<<>>, <<>>),
     layouts |-> <<>>,
     time |-> 0,
     ws |-> WsRecord(0, 0, 0, 0),
     load_average |-> 0,
     memory_usage |-> <<0, 1>>,
     sink |-> Pulse(FALSE, 0, <<>>),
     source |-> Pulse(FALSE, 0, <<>>),
     power |-> Power(FALSE, FALSE, 0, IconName("", -1, ""))]

\* where each task starts
InitialPc(t) ==
    CASE t = "sway" -> "connect"
      [] t = "time" -> "loop"
      [] t = "sound" -> "recv"
      [] t = "alsa" -> "open"
      [] t = "upower" -> "connect"

NoRaw == [hasVolume |-> FALSE, low |-> 0, high |-> 0, hasSwitch |-> FALSE,
          channels |-> <<>>]

Init ==
    /\ chan = <<>>
    /\ sent = [t \in Listeners |-> 0]
    /\ recvLog = [t \in Listeners |-> <<>>]
    /\ dpc = "init"
    /\ derr = NoErr
    /\ ev = NoEvent
    /\ windows = <<>>
    /\ fwdTodo = {}
    /\ addTodo = {}
    /\ mon = {}
    /\ emitted = <<>>
    /\ snap = {}
    /\ lastOutputs = {}
    /\ resolvableAt = [n \in Names |-> FALSE]
    /\ skipped = {}
    /\ survivors = {}
    /\ everSkipped = {}
    /\ inbox = <<>>
    /\ st = DefaultState
    /\ wlock = "none"
    /\ poisoned = FALSE
    /\ lpc = [t \in Tasks |-> InitialPc(t)]
    /\ lerr = [t \in Tasks |-> NoErr]
    /\ budget = [t \in Tasks |->
                   CASE t = "sway" -> MaxSwayEvents
                     [] t = "time" -> MaxTicks
                     [] t = "alsa" -> MaxAlsaLoops
                     [] t = "upower" -> MaxWakes
                     [] OTHER -> 0]
    /\ sret = "fi_query"
    /\ inq = <<>>
    /\ fetchNo = 0
    /\ swayEv = "none"
    /\ meminfo = <<>>
    /\ pchan = <<>>
    /\ dkind = "-"
    /\ lastRaw = [k \in PulseKinds |-> NoRaw]
    /\ drained = [k \in PulseKinds |-> 0]
    /\ futs = 0
    /\ orphans = 0
    /\ refused = FALSE
    /\ permit = FALSE
    /\ pchanged = FALSE
    /\ reading = NoReading
    /\ visible = FALSE
    /\ cin = <<>>
    /\ watcher = FALSE
    /\ elapsed = 0
    /\ sinceShow = IntervalTicks
    /\ shows = MaxShows

(***************************************************************************)
(* The dispatcher: app.rs main_loop, play_sound, forward_event and         *)
(* adjust_windows.                                                         *)
(***************************************************************************)
DispatcherFail(e) ==
    /\ dpc' = "failed"
    /\ derr' = e

\* OutputStream::try_default().context("create output stream")?
DispatcherStart ==
    /\ dpc = "init"
    /\ \/ /\ dpc' = "recv"
          /\ UNCHANGED derr
       \/ DispatcherFail("create output stream")
    /\ UNCHANGED <<ev, windows, fwdTodo, addTodo, mon, emitted, snap,
                   lastOutputs, resolvableAt, skipped, survivors, everSkipped, inbox>>
    /\ UNCHANGED <<cvars, svars, lvars>>

\* the window instances of the map, and its keys
Instances(w) == {w[n] : n \in DOMAIN w}

\* a fan-out over nothing
NoValues(w) == {}

\* forward_event: for controller in windows.values()
Values(w) == DOMAIN w

\* a loop that takes the next notification while it is still busy
RecvAnytime == dpc \in {"recv", "forward", "add"}

\* the loop takes the next notification only when the previous one is done with
RecvReady == dpc = "recv"

\* a retain that keeps everything
RetainedAll(w, new) == w

\* every window is dropped, and those still named are made anew
RetainedNone(w, new) == <<>>

\* windows.retain(|output, _| new_outputs.contains(output))
Retained(w, new) == [n \in (DOMAIN w \cap new) |-> w[n]]

\* the names to add without the filter on the existing keys
AddedUnfiltered(w, new) == new

\* the names to add, save those that were skipped before
AddedNotSkipped(w, new) == {n \in new : n \notin DOMAIN w /\ n \notin everSkipped}

\* new_outputs.iter().filter(|&output| !windows.contains_key(output)).collect()
Added(w, new) == {n \in new : n \notin DOMAIN w}

\* let event = rx.recv().await: the oldest value is taken; what is recorded
\* about the notification now being processed starts afresh
Took(e) ==
    /\ ev' = e
    /\ chan' = Remaining(chan)
    /\ recvLog' = [recvLog EXCEPT ![e.from] = Append(@, e.seq)]
    /\ snap' = Instances(windows)
    /\ emitted' = <<>>
    /\ skipped' = {}
    /\ UNCHANGED sent

\* an Outputs notification: adjust_windows up to the loop over the added
\* names; monitorSets are the connector sets GDK may report
RecvOutputs(monitorSets) ==
    /\ RecvReady
    /\ chan # <<>>
    /\ Dequeued(chan).kind = "Outputs"
    /\ Took(Dequeued(chan))
    /\ windows' = Retained(windows, ev'.outs)
    /\ lastOutputs' = ev'.outs
    /\ survivors' = DOMAIN windows \cap ev'.outs
    /\ inbox' = [n \in DOMAIN windows' |-> inbox[n]]
    /\ \/ /\ \E m \in monitorSets : mon' = m
          /\ addTodo' = Added(windows', ev'.outs)
          /\ dpc' = IF addTodo' = {} THEN "recv" ELSE "add"
          /\ UNCHANGED derr
       \/ /\ DispatcherFail("Failed to get default display")
          /\ UNCHANGED <<mon, addTodo>>
    /\ UNCHANGED <<fwdTodo, resolvableAt, everSkipped>>
    /\ UNCHANGED <<svars, lvars>>

\* every notification has a sound
AlwaysSound(e) == TRUE

\* play_sound: which notifications have a sound, and what may go wrong with it
HasSound(e) == e.kind \in {"Pulse", "PowerChanged"}

SoundErrors == {"open audio file", "decode audio", "play audio"}

\* any other notification: play_sound(&stream_handle, &state.read().unwrap(),
\* &event)?, then forward_event starts
RecvOther ==
    /\ RecvReady
    /\ chan # <<>>
    /\ Dequeued(chan).kind # "Outputs"
    /\ CanRead
    /\ Took(Dequeued(chan))
    /\ survivors' = {}
    /\ \/ /\ fwdTodo' = Values(windows)
          /\ dpc' = IF fwdTodo' = {} THEN "recv" ELSE "forward"
          /\ UNCHANGED derr
       \/ /\ HasSound(Dequeued(chan))
          /\ \E e \in SoundErrors : DispatcherFail(e)
          /\ UNCHANGED fwdTodo
    /\ UNCHANGED <<windows, addTodo, mon, lastOutputs, resolvableAt, everSkipped, inbox>>
    /\ UNCHANGED <<svars, lvars>>

\* rx.recv() yields None once the queue is empty and every sender is gone:
\* .ok_or_eyre("receive event")?
RecvClosed ==
    /\ RecvReady
    /\ chan = <<>>
    /\ AllSendersDropped
    /\ DispatcherFail("receive event")
    /\ ev' = NoEvent
    /\ snap' = {}
    /\ emitted' = <<>>
    /\ skipped' = {}
    /\ survivors' = {}
    /\ UNCHANGED <<windows, fwdTodo, addTodo, mon, lastOutputs, resolvableAt, everSkipped, inbox>>
    /\ UNCHANGED <<cvars, svars, lvars>>

\* a value in a window's input queue: who gave it (history) and what it is
Given(by, msg) == [by |-> by, msg |-> msg]

\* forward_event: controller.sender().emit(event.clone()) for one of windows.values()
Forward ==
    /\ dpc = "forward"
    /\ \E n \in fwdTodo :
          /\ emitted' = Append(emitted, [to |-> windows[n], msg |-> Payload(ev)])
          /\ inbox' = [inbox EXCEPT ![n] = Append(@, Given("forward", Payload(ev)))]
          /\ fwdTodo' = fwdTodo \ {n}
          /\ dpc' = IF fwdTodo' = {} THEN "recv" ELSE "forward"
    /\ UNCHANGED <<derr, ev, windows, addTodo, mon, snap, lastOutputs,
                   resolvableAt, skipped, survivors, everSkipped>>
    /\ UNCHANGED <<cvars, svars, lvars>>

\* a lookup that finds nothing
NeverFound(m, added) == FALSE

\* monitors.iter().find(|monitor| monitor.connector().as_deref() == Some(added))
MonitorFound(m, added) == added \in m

\* HashMap::insert: the value is stored, replacing an old one
Inserted(w, k, c) == [n \in (DOMAIN w \cup {k}) |-> IF n = k THEN c ELSE w[n]]

\* the bar window AppModel::builder().launch(..).detach() creates for an
\* output while notification e is processed
NewController(n, e) == <<n, e.from, e.seq>>

\* a window that starts with nothing in its queue
NoInitInputs == <<>>

\* AppModel::init: for event in [..] { sender.input_sender().emit(event) },
\* run by launch() before the controller is returned
InitInputs ==
    <<Given("init", Payload(AppInput("Layout", {}, "-", "-", 0))),
      Given("init", Payload(AppInput("LayoutList", {}, "-", "-", 0))),
      Given("init", Payload(AppInput("Time", {}, "-", "-", 0))),
      Given("init", Payload(AppInput("Workspaces", {}, "-", "-", 0))),
      Given("init", Payload(AppInput("Sysinfo", {}, "-", "-", 0))),
      Given("init", Payload(AppInput("Pulse", {}, "Source", "-", 0))),
      Given("init", Payload(AppInput("Pulse", {}, "Sink", "-", 0))),
      Given("init", Payload(AppInput("Power", {}, "-", "-", 0)))>>

\* one turn of the loop over the added names
Add ==
    /\ dpc = "add"
    /\ \E n \in addTodo :
          /\ addTodo' = addTodo \ {n}
          /\ resolvableAt' = [resolvableAt EXCEPT ![n] = MonitorFound(mon, n)]
          /\ IF ~MonitorFound(mon, n)
             THEN \* warn!("GDK and Sway monitor mismatch! ..."); continue
                  /\ skipped' = skipped \cup {n}
                  /\ everSkipped' = everSkipped \cup {n}
                  /\ dpc' = IF addTodo' = {} THEN "recv" ELSE "add"
                  /\ UNCHANGED <<windows, derr, inbox>>
             ELSE /\ windows' = Inserted(windows, n, NewController(n, ev))
                  /\ inbox' = Inserted(inbox, n, InitInputs)
                  /\ IF n \in DOMAIN windows
                     THEN DispatcherFail("nonexistent element exists")
                     ELSE /\ dpc' = IF addTodo' = {} THEN "recv" ELSE "add"
                          /\ UNCHANGED derr
                  /\ UNCHANGED <<skipped, everSkipped>>
    /\ UNCHANGED <<ev, fwdTodo, mon, emitted, snap, lastOutputs, survivors>>
    /\ UNCHANGED <<cvars, svars, lvars>>

\* main.rs: if let Err(e) = main_loop().await { eprintln!(..); std::process::abort() }
Abort ==
    /\ dpc = "failed"
    /\ dpc' = "aborted"
    /\ UNCHANGED <<derr, ev, windows, fwdTodo, addTodo, mon, emitted, snap,
                   lastOutputs, resolvableAt, skipped, survivors, everSkipped, inbox>>
    /\ UNCHANGED <<cvars, svars, lvars>>

\* what GDK may report within the model's bounds
MonitorSets == SUBSET Names

DispatcherNext ==
    \/ DispatcherStart
    \/ RecvOutputs(MonitorSets)
    \/ RecvOther
    \/ RecvClosed
    \/ Forward
    \/ Add
    \/ Abort

(***************************************************************************)
(* The compositor listener: listeners/sway.rs start, and the fetches of    *)
(* listeners/sway/output.rs, workspace.rs and input.rs.                    *)
(***************************************************************************)
\* Connection::new() twice and subscribe([Input, Output, Workspace, Window])
SwayConnect ==
    /\ Running
    /\ lpc["sway"] = "connect"
    /\ \/ Goto("sway", "fo_query")
       \/ \E e \in {"initial connection", "event connection", "subscribe to events"} :
             Fail("sway", e)
    /\ UNCHANGED <<cvars, dvars, svars, budget, swayLocal, soundLocal, powerLocal, timeLocal, changerLocal>>

\* output::fetch returns once Outputs is sent
BackToCaller == sret

\* super::workspace::fetch(tx, conn, state).await?
AfterOutputs == "fw_query"

\* output::fetch: conn.get_outputs().await, the names collected into a set
\* and sent; outs are the name sets the compositor may report
SwayFetchOutput(outs) ==
    /\ Running
    /\ lpc["sway"] = "fo_query"
    /\ \/ \E o \in outs :
             IF RxClosed
             THEN Fail("sway", "send outputs") /\ UNCHANGED cvars
             ELSE Sent("sway", <<OutputsMsg(o)>>) /\ Goto("sway", AfterOutputs)
       \/ /\ Fail("sway", "get outputs")
          /\ UNCHANGED cvars
    /\ UNCHANGED <<dvars, svars, budget, swayLocal, soundLocal, powerLocal, timeLocal, changerLocal>>

\* a replacement of two of the four fields only
WsPatched(s, f) == [s EXCEPT !.ws.urgent = f, !.ws.existing = f]

\* the block of workspace::fetch that replaces the four workspace fields with
\* what fetch number f computed
WsReplaced(s, f) == [s EXCEPT !.ws = WsRecord(f, f, f, f)]

\* workspace::fetch: get_workspaces, get_outputs and get_tree, then the four
\* fields are replaced under one write guard, the guard is dropped and
\* Workspaces is sent
SwayFetchWorkspace ==
    /\ Running
    /\ lpc["sway"] = "fw_query"
    /\ \/ /\ CanWrite
          /\ fetchNo' = fetchNo + 1
          /\ st' = WsReplaced(st, fetchNo')
          /\ IF RxClosed
             THEN Fail("sway", "send workspaces") /\ UNCHANGED cvars
             ELSE Sent("sway", <<Msg("Workspaces")>>) /\ Goto("sway", sret)
       \/ /\ \E e \in {"get workspaces", "get outputs", "get tree"} : Fail("sway", e)
          /\ UNCHANGED <<cvars, st, fetchNo>>
    /\ sret' = "wait"
    /\ UNCHANGED <<dvars, wlock, poisoned, budget, inq, swayEv, soundLocal, powerLocal, timeLocal, changerLocal>>

(***************************************************************************)
(* Strings are sequences of characters; a character outside ASCII is named *)
(* by its code point.  Utf8Len is the number of bytes of its encoding.     *)
(***************************************************************************)
Utf8Len(c) ==
    CASE c \in {"U+00E9", "U+0101", "U+0440"} -> 2
      [] c \in {"U+65E5"} -> 3
      [] OTHER -> 1

UpperAscii == <<"A", "B", "C", "D", "E", "F", "G", "H", "I", "J", "K", "L", "M",
                "N", "O", "P", "Q", "R", "S", "T", "U", "V", "W", "X", "Y", "Z">>
LowerAscii == <<"a", "b", "c", "d", "e", "f", "g", "h", "i", "j", "k", "l", "m",
                "n", "o", "p", "q", "r", "s", "t", "u", "v", "w", "x", "y", "z">>

\* char::to_ascii_lowercase
CharLower(c) ==
    IF \E i \in DOMAIN UpperAscii : UpperAscii[i] = c
    THEN LowerAscii[CHOOSE i \in DOMAIN UpperAscii : UpperAscii[i] = c]
    ELSE c

\* str::to_ascii_lowercase
ToAsciiLowercase(str) == [i \in 1..Len(str) |-> CharLower(str[i])]

RECURSIVE ByteLen(_)
ByteLen(str) == IF str = <<>> THEN 0 ELSE Utf8Len(Head(str)) + ByteLen(Tail(str))

\* &s[..n] is defined when n is at most the length in bytes and falls on a
\* character boundary; otherwise the slice panics
PrefixChars(str, n) ==
    {k \in 0..Len(str) : ByteLen(SubSeq(str, 1, k)) = n}

SlicePanics(str, n) == PrefixChars(str, n) = {}

SliceTo(str, n) == SubSeq(str, 1, CHOOSE k \in PrefixChars(str, n) : TRUE)

XXNotFound == <<"X", "X", " ", "N", "o", "t", " ", "f", "o", "u", "n", "d">>

\* layouts.get(layout_index as usize).map(|name| &name[..]).unwrap_or("XX Not found")
LayoutName(r) ==
    IF r.index >= 0 /\ r.index < Len(r.layouts)
    THEN r.layouts[r.index + 1]
    ELSE XXNotFound

\* the short name is the first two bytes of the layout name
ShortLen == 2

\* XkbLayout { name: layout_name[..2].to_ascii_lowercase(), description: layout_name.into() }
LayoutOf(name) == XkbLayout(ToAsciiLowercase(SliceTo(name, ShortLen)), name)

\* input::fetch: get_inputs, the keyboard's layout list and the active
\* layout; the write guard is taken and state.layout replaced.  replies are
\* the answers the compositor may give
SwayFetchInput(replies) ==
    /\ Running
    /\ lpc["sway"] = "fi_query"
    /\ \/ \E r \in replies :
             IF ~r.kbd
             THEN /\ Fail("sway", "keyboard not found")
                  /\ UNCHANGED <<svars, inq>>
             ELSE /\ CanWrite
                  /\ IF SlicePanics(LayoutName(r), ShortLen)
                     THEN \* the guard is dropped by the unwinding panic
                          /\ Fail("sway", "byte index is not a char boundary")
                          /\ poisoned' = TRUE
                          /\ UNCHANGED <<st, wlock, inq>>
                     ELSE /\ st' = [st EXCEPT !.layout = LayoutOf(LayoutName(r))]
                          /\ wlock' = "sway"
                          /\ inq' = r.layouts
                          /\ Goto("sway", "fi_send")
                          /\ UNCHANGED poisoned
       \/ /\ Fail("sway", "get inputs")
          /\ UNCHANGED <<svars, inq>>
    /\ UNCHANGED <<cvars, dvars, budget, sret, fetchNo, swayEv, soundLocal, powerLocal, timeLocal, changerLocal>>

\* the catalog is announced at every fetch
CatalogAlwaysNew(old, new) == TRUE

\* state.layouts != layouts
CatalogDiffers(old, new) == old # new

\* input::fetch: tx.send(AppInput::Layout) under the guard; the catalog is
\* compared, replaced and announced; the guard is dropped at the end of the block
SwaySendLayout ==
    /\ Running
    /\ lpc["sway"] = "fi_send"
    /\ IF RxClosed
       THEN /\ Fail("sway", "send layout")
            /\ UNCHANGED <<cvars, st>>
       ELSE /\ IF CatalogDiffers(st.layouts, inq)
               THEN /\ st' = [st EXCEPT !.layouts = inq]
                    /\ Sent("sway", <<Msg("Layout"), Msg("LayoutList")>>)
               ELSE /\ Sent("sway", <<Msg("Layout")>>)
                    /\ UNCHANGED st
            /\ Goto("sway", "wait")
    /\ wlock' = Released("sway")
    /\ inq' = <<>>
    /\ UNCHANGED <<dvars, poisoned, budget, sret, fetchNo, swayEv, soundLocal, powerLocal, timeLocal, changerLocal>>

\* what stream.next().await may yield: an undecodable event, an event of a
\* subscribed class, or a well-formed event of another class
SwayEvents == {"Malformed", "Input", "Output", "Window", "Workspace", "Other"}

\* an undecodable event ends the turn at once
MalformedFatal == Fail("sway", "decode event")

\* let Ok(event) = event else { continue }
OnMalformed == UNCHANGED <<lpc, lerr>>

\* an event of no subscribed class is passed over
UnexpectedSkipped == UNCHANGED <<lpc, lerr>>

\* _ => bail!("Unexpected event")
OnUnexpected == Fail("sway", "Unexpected event")

\* listeners/sway.rs start: one turn of the while-let loop over the
\* subscription; events are the events the compositor may deliver.  The budget
\* bounds the decodable events; an undecodable one leaves nothing behind to bound
SwayEvent(events) ==
    /\ Running
    /\ lpc["sway"] = "wait"
    /\ \E e \in events :
          /\ swayEv' = e
          /\ IF e = "Malformed"
                THEN OnMalformed /\ UNCHANGED budget
                ELSE /\ budget["sway"] > 0
                     /\ budget' = [budget EXCEPT !["sway"] = @ - 1]
                     /\ CASE e = "Input" -> Goto("sway", "fi_query")
                          [] e = "Output" -> Goto("sway", "fo_query")
                          [] e \in {"Window", "Workspace"} -> Goto("sway", "fw_query")
                          [] OTHER -> OnUnexpected
    /\ UNCHANGED <<cvars, dvars, svars, sret, inq, fetchNo, soundLocal, powerLocal, timeLocal, changerLocal>>

\* the subscription ends: the loop is left and start returns Ok(())
SwayStreamEnds ==
    /\ Running
    /\ lpc["sway"] = "wait"
    /\ Goto("sway", "done")
    /\ UNCHANGED <<cvars, dvars, svars, budget, swayLocal, soundLocal, powerLocal, timeLocal, changerLocal>>

\* the compositor's answers within the model's bounds
EnglishUS == <<"E", "n", "g", "l", "i", "s", "h", " ", "(", "U", "S", ")">>
Russian == <<"R", "u", "s", "s", "i", "a", "n">>

\* names with a first character of two bytes, with a second character of two
\* bytes, and of one byte in all
Ecole == <<"U+00E9", "c", "o", "l", "e">>
Maori == <<"M", "U+0101", "o", "r", "i">>
OneLetter == <<"A">>

InputReply(kbd, layouts, index) == [kbd |-> kbd, layouts |-> layouts, index |-> index]

InputReplies ==
    {InputReply(TRUE, <<EnglishUS, Russian>>, 0),
     InputReply(TRUE, <<EnglishUS, Russian>>, 1),
     InputReply(TRUE, <<Russian>>, 0),
     InputReply(FALSE, <<>>, -1)}

\* an active index past the list, and the names above as the active layout
OddReplies ==
    {InputReply(TRUE, <<EnglishUS, Russian>>, 2),
     InputReply(TRUE, <<Ecole>>, 0),
     InputReply(TRUE, <<Maori>>, 0),
     InputReply(TRUE, <<OneLetter>>, 0)}

OutputSets == SUBSET Names

SwayNext ==
    \/ SwayConnect
    \/ SwayFetchOutput(OutputSets)
    \/ SwayFetchWorkspace
    \/ SwayFetchInput(InputReplies)
    \/ SwaySendLayout
    \/ SwayEvent(SwayEvents)
    \/ SwayStreamEnds

(***************************************************************************)
(* The timer listener: listeners/time.rs start.                            *)
(***************************************************************************)
\* a line of /proc/meminfo as line.split_whitespace() sees it: the number of
\* fields, the first field, and the second field parsed as usize (-1 when
\* it does not parse)
MemLine(n, name, value) == [n |-> n, name |-> name, value |-> value]

MemOk(total, avail) == [err |-> NoErr, total |-> total, avail |-> avail]
MemErr(e) == [err |-> e, total |-> 0, avail |-> 0]

\* the loop reads every line, whatever it has found
ReadToEnd(count) == FALSE

\* if count_fields == 0 { break; }
FieldsDone(count) == count = 0

\* the while-let loop over the lines, with total_ram, available_ram and
\* count_fields as it runs
RECURSIVE MemParse(_, _, _, _)
MemParse(lines, total, avail, count) ==
    IF lines = <<>>
    THEN MemOk(total, avail)
    ELSE LET l == Head(lines)
             rest == Tail(lines)
         IN  CASE l.n = 3 /\ l.name = "MemTotal:" ->
                    IF l.value < 0
                    THEN MemErr("bad total_ram")
                    ELSE IF FieldsDone(count - 1)
                         THEN MemOk(l.value, avail)
                         ELSE MemParse(rest, l.value, avail, count - 1)
               [] l.n = 3 /\ l.name = "MemAvailable:" ->
                    IF l.value < 0
                    THEN MemErr("bad available_ram")
                    ELSE IF FieldsDone(count - 1)
                         THEN MemOk(total, l.value)
                         ELSE MemParse(rest, total, l.value, count - 1)
               [] l.n = 3 /\ l.name \notin {"MemTotal:", "MemAvailable:"} ->
                    MemParse(rest, total, avail, count)
               [] l.n = 2 ->
                    MemParse(rest, total, avail, count)
               [] OTHER ->
                    MemErr("/proc/meminfo has unexpected format")

\* the loop is left at the first of the two fields
ReadFirstField(lines) == MemParse(lines, 1, 0, 1)

\* let mut total_ram = 1; let mut available_ram = 0; let mut count_fields = 2
ReadMeminfo(lines) == MemParse(lines, 1, 0, 2)

\* the top of the loop: state.write().unwrap().time = Local::now(), the guard
\* dropped at the end of the statement, then tx.send(AppInput::Time)
TimeLoop ==
    /\ Running
    /\ lpc["time"] = "loop"
    /\ CanWrite
    /\ st' = [st EXCEPT !.time = @ + 1]
    /\ IF RxClosed
       THEN Fail("time", "send time") /\ UNCHANGED cvars
       ELSE Sent("time", <<Msg("Time")>>) /\ Goto("time", "meminfo")
    /\ UNCHANGED <<dvars, wlock, poisoned, budget, swayLocal, soundLocal, powerLocal, timeLocal, changerLocal>>

\* Sysinfo is sent with the two fields as they were
SysinfoKept(s, m) == s

\* state.load_average = load_average; state.memory_usage = memory_usage, the
\* latter kept as the pair (available_ram, total_ram) of 1 - available/total
SysinfoReplaced(s, m) == [s EXCEPT !.load_average = s.time, !.memory_usage = m]

\* system::sysinfo(), File::open("/proc/meminfo").await and the lines read;
\* then the write guard is taken and the two fields assigned.  files are the
\* contents the file may have
TimeSample(files) ==
    /\ Running
    /\ lpc["time"] = "meminfo"
    /\ \/ \E f \in files :
             LET r == ReadMeminfo(f)
             IN  /\ meminfo' = f
                 /\ IF r.err = NoErr
                    THEN /\ CanWrite
                         /\ wlock' = "time"
                         /\ st' = SysinfoReplaced(st, <<r.avail, r.total>>)
                         /\ Goto("time", "sysinfo")
                    ELSE /\ Fail("time", r.err)
                         /\ UNCHANGED <<st, wlock>>
       \/ /\ \E e \in {"read meminfo", "line meminfo"} : Fail("time", e)
          /\ UNCHANGED <<st, wlock, meminfo>>
    /\ UNCHANGED <<cvars, dvars, poisoned, budget, swayLocal, soundLocal, powerLocal, changerLocal>>

\* tx.send(AppInput::Sysinfo).context("send sysinfo")? with the guard still
\* alive; the block ends and the guard is dropped
TimeSendSysinfo ==
    /\ Running
    /\ lpc["time"] = "sysinfo"
    /\ IF RxClosed
       THEN Fail("time", "send sysinfo") /\ UNCHANGED cvars
       ELSE Sent("time", <<Msg("Sysinfo")>>) /\ Goto("time", "tick")
    /\ wlock' = Released("time")
    /\ UNCHANGED <<dvars, st, poisoned, budget, swayLocal, soundLocal, powerLocal, timeLocal, changerLocal>>

\* let _ = timer.tick().await, and the loop starts over
TimeTick ==
    /\ Running
    /\ lpc["time"] = "tick"
    /\ budget["time"] > 0
    /\ budget' = [budget EXCEPT !["time"] = @ - 1]
    /\ Goto("time", "loop")
    /\ UNCHANGED <<cvars, dvars, svars, swayLocal, soundLocal, powerLocal, timeLocal, changerLocal>>

\* contents of /proc/meminfo within the model's bounds
MeminfoFiles ==
    {<<MemLine(3, "MemTotal:", 1000), MemLine(3, "MemFree:", 100),
       MemLine(3, "MemAvailable:", 250)>>,
     <<MemLine(3, "MemTotal:", 1000), MemLine(1, "garbage", -1)>>,
     <<MemLine(3, "MemTotal:", 1000), MemLine(3, "MemAvailable:", 250),
       MemLine(1, "garbage", -1)>>,
     <<MemLine(2, "HugePages_Total:", 0), MemLine(3, "MemAvailable:", 250),
       MemLine(4, "Mem", -1), MemLine(3, "MemTotal:", 1000)>>,
     <<MemLine(3, "MemAvailable:", 250), MemLine(2, "HugePages_Total:", 0),
       MemLine(3, "MemTotal:", 1000)>>}

TimeNext ==
    \/ TimeLoop
    \/ TimeSample(MeminfoFiles)
    \/ TimeSendSysinfo
    \/ TimeTick

(***************************************************************************)
(* The sound listener: state.rs Pulse::parse and Pulse::make, and          *)
(* listeners/sound.rs alsa_loop and start.                                 *)
(***************************************************************************)
\* i64 division truncates toward zero
TruncDiv(a, b) ==
    IF (a >= 0) = (b > 0)
    THEN (IF a >= 0 THEN a ELSE -a) \div (IF b > 0 THEN b ELSE -b)
    ELSE -((IF a >= 0 THEN a ELSE -a) \div (IF b > 0 THEN b ELSE -b))

\* a channel of a mixer element: its volume (-1: get_*_volume fails) and its
\* switch (0: off, 1: on, -1: get_*_switch fails)
Channel(vol, sw) == [vol |-> vol, sw |-> sw]

\* the state of a mixer element as Pulse::parse reads it
Raw(hasVolume, low, high, hasSwitch, channels) ==
    [hasVolume |-> hasVolume, low |-> low, high |-> high,
     hasSwitch |-> hasSwitch, channels |-> channels]

\* the channels whose volume can be read
Readable(raw) == {i \in DOMAIN raw.channels : raw.channels[i].vol >= 0}

\* cur_muted of a channel: the switch reads Ok(0)
CurMuted(c) == c.sw = 0

RECURSIVE AccVolume(_, _)
AccVolume(raw, is) ==
    IF is = {}
    THEN 0
    ELSE LET i == CHOOSE j \in is : TRUE
         IN  (IF CurMuted(raw.channels[i]) THEN 0 ELSE raw.channels[i].vol - raw.low)
             + AccVolume(raw, is \ {i})

\* muted as soon as one channel is
AnyMuted(raw) ==
    raw.hasSwitch /\ \E i \in Readable(raw) : CurMuted(raw.channels[i])

\* globally_muted after the loop over the channels
GloballyMuted(raw) ==
    raw.hasSwitch /\ \A i \in Readable(raw) : CurMuted(raw.channels[i])

\* the last statement of Pulse::parse divides by volume_high - volume_low and
\* by channel_count
ParsePanics(raw) ==
    raw.hasVolume /\ (raw.high - raw.low = 0 \/ Readable(raw) = {})

Percent == 100

\* an element without volume taken for a silent one that is switched on
NoVolumeUnmuted == <<0, FALSE>>

\* return (0, true)
NoVolume == <<0, TRUE>>

\* Pulse::parse: (volume, muted)
PulseParse(raw) ==
    IF ~raw.hasVolume
    THEN NoVolume
    ELSE <<TruncDiv(TruncDiv(Percent * AccVolume(raw, Readable(raw)), raw.high - raw.low),
                    Cardinality(Readable(raw))),
           GloballyMuted(raw)>>

LowMax == 25
MediumMax == 50

\* the match on volume in Pulse::make
VolumeWord(volume, muted) ==
    CASE volume = 0 -> "muted"
      [] muted -> "muted"
      [] volume <= LowMax -> "low"
      [] volume <= MediumMax -> "medium"
      [] OTHER -> "high"

\* format!("{}-volume-{}", ..): the two parts of the name
PulseIcon(kind, volume, muted) ==
    <<IF kind = "Sink" THEN "audio" ELSE "mic", "volume", VolumeWord(volume, muted)>>

\* Pulse::make
PulseMake(raw, kind) ==
    LET p == PulseParse(raw)
    IN  Pulse(p[2], p[1], PulseIcon(kind, p[1], p[2]))

\* Mixer::new("default", false).context("alsa mixer create")?
AlsaOpen ==
    /\ Running
    /\ lpc["alsa"] = "open"
    /\ \/ Goto("alsa", "iter")
       \/ Fail("alsa", "alsa mixer create")
    /\ UNCHANGED <<cvars, dvars, svars, budget, swayLocal, soundLocal, powerLocal, timeLocal, changerLocal>>

\* what the scan of the mixer found: the kinds in the order of mixer.iter(),
\* each with the state of its element
RECURSIVE Records(_)
Records(scan) ==
    IF scan = <<>> \/ ParsePanics(scan[1][2])
    THEN <<>>
    ELSE <<[kind |-> scan[1][1], pulse |-> PulseMake(scan[1][2], scan[1][1]),
            raw |-> scan[1][2]]>> \o Records(Tail(scan))

ScanPanics(scan) == \E i \in DOMAIN scan : ParsePanics(scan[i][2])

\* select_all hands back the handles that are not done and `let _ =` drops
\* them: a dropped JoinHandle detaches its task, which goes on waiting
Detached(o, f) == o + f

\* one turn of the loop of alsa_loop up to its await: handle_events, every
\* Master and Capture element made into a record and sent to the drain task,
\* the descriptors filled and a task spawned for each.  scans are the mixer
\* states within the model's bounds
AlsaIterate(scans) ==
    /\ Running
    /\ lpc["alsa"] = "iter"
    /\ budget["alsa"] > 0
    /\ budget' = [budget EXCEPT !["alsa"] = @ - 1]
    /\ \/ \E scan \in scans :
             IF scan # <<>> /\ Ended("sound")
             THEN \* pulse_rx is gone: .ok().context("send alsa")?
                  Fail("alsa", "send alsa") /\ UNCHANGED pchan
             ELSE /\ pchan' = pchan \o Records(scan)
                  /\ IF ScanPanics(scan)
                     THEN Fail("alsa", "attempt to divide by zero")
                     ELSE Goto("alsa", "wait")
       \/ /\ \E e \in {"alsa mixer handle events", "fill descriptors"} : Fail("alsa", e)
          /\ UNCHANGED pchan
    /\ orphans' = Detached(orphans, futs)
    /\ futs' = IF lpc'["alsa"] = "wait" THEN NumFds - orphans' ELSE 0
    /\ refused' = (lpc'["alsa"] = "wait" /\ orphans' > 0)
    /\ UNCHANGED <<cvars, dvars, svars, swayLocal, dkind, lastRaw, drained, powerLocal, timeLocal, changerLocal>>

\* let _ = futures::future::select_all(futs).await returns: one of the
\* mixer's descriptors has become readable or is in error, or a sub-task has
\* ended at AsyncFd::with_interest(..).unwrap() because an earlier sub-task
\* still has its descriptor registered.  Nothing else ends the wait
AlsaReady ==
    /\ Running
    /\ lpc["alsa"] = "wait"
    /\ IF refused
       THEN UNCHANGED futs
       ELSE futs > 0 /\ futs' = futs - 1
    /\ refused' = FALSE
    /\ Goto("alsa", "iter")
    /\ UNCHANGED <<cvars, dvars, svars, budget, swayLocal, pchan, dkind, lastRaw, drained, orphans, powerLocal, timeLocal, changerLocal>>

\* the descriptor of a sub-task of an earlier iteration becomes ready and the
\* sub-task ends
OrphanEnds ==
    /\ Running
    /\ orphans > 0
    /\ orphans' = orphans - 1
    /\ UNCHANGED <<cvars, dvars, svars, tvars, swayLocal, pchan, dkind, lastRaw, drained, futs, refused, powerLocal, timeLocal, changerLocal>>

\* the slot of a kind
Slot(s, k) == IF k = "Sink" THEN s.sink ELSE s.source

SlotReplaced(s, k, p) ==
    IF k = "Sink" THEN [s EXCEPT !.sink = p] ELSE [s EXCEPT !.source = p]

\* a comparison of the volume only
SameVolume(a, b) == a.volume = b.volume

\* *slot == pulse, by #[derive(PartialEq)]
SameRecord(a, b) == a.muted = b.muted /\ a.volume = b.volume /\ a.icon = b.icon

\* start: a record is taken from the internal channel, the write guard is
\* taken, and the record replaces the slot unless it equals it
SoundDrain ==
    /\ Running
    /\ lpc["sound"] = "recv"
    /\ pchan # <<>>
    /\ CanWrite
    /\ LET m == Head(pchan)
       IN  /\ pchan' = Tail(pchan)
           /\ lastRaw' = [lastRaw EXCEPT ![m.kind] = m.raw]
           /\ drained' = [drained EXCEPT ![m.kind] = @ + 1]
           /\ IF SameRecord(Slot(st, m.kind), m.pulse)
              THEN \* continue: the guard is dropped
                   UNCHANGED <<st, wlock, dkind, lpc, lerr>>
              ELSE /\ st' = SlotReplaced(st, m.kind, m.pulse)
                   /\ wlock' = "sound"
                   /\ dkind' = m.kind
                   /\ Goto("sound", "send")
    /\ UNCHANGED <<cvars, dvars, poisoned, budget, swayLocal, waitLocal, powerLocal, timeLocal, changerLocal>>

\* tx.send(AppInput::Pulse(kind)).context("send pulse")? with the guard still
\* alive; the guard is dropped at the end of the loop body
SoundSend ==
    /\ Running
    /\ lpc["sound"] = "send"
    /\ IF RxClosed
       THEN Fail("sound", "send pulse") /\ UNCHANGED cvars
       ELSE Sent("sound", <<PulseMsg(dkind)>>) /\ Goto("sound", "recv")
    /\ wlock' = Released("sound")
    /\ dkind' = "-"
    /\ UNCHANGED <<dvars, st, poisoned, budget, swayLocal, pchan, lastRaw, drained, waitLocal, powerLocal, timeLocal, changerLocal>>

\* pulse_rx.recv() yields None once the mixer loop is gone: start returns Ok(())
SoundClosed ==
    /\ Running
    /\ lpc["sound"] = "recv"
    /\ pchan = <<>>
    /\ Ended("alsa")
    /\ Goto("sound", "done")
    /\ UNCHANGED <<cvars, dvars, svars, budget, swayLocal, soundLocal, powerLocal, timeLocal, changerLocal>>

\* mixer element states within the model's bounds: a stereo element that is
\* loud, one at volume zero with its switches on, one with its switches off,
\* an element without volume, a one-channel element at two of three steps,
\* a stereo element at half and at full scale of a 16-bit range, a stereo
\* element with one switch off, one without switches, and a one-channel
\* element whose range is a single value
Stereo(l, r, swl, swr) == Raw(TRUE, 0, 100, TRUE, <<Channel(l, swl), Channel(r, swr)>>)

Loud == Stereo(60, 60, 1, 1)
Zero == Stereo(0, 0, 1, 1)
Silenced == Stereo(60, 60, 0, 0)
Absent == Raw(FALSE, 0, 0, FALSE, <<>>)
Coarse == Raw(TRUE, 0, 3, TRUE, <<Channel(2, 1)>>)
HalfAndFull == Raw(TRUE, 0, 65536, TRUE, <<Channel(32768, 1), Channel(65536, 1)>>)
HalfMuted == Stereo(60, 60, 0, 1)
NoSwitch == Raw(TRUE, 0, 100, FALSE, <<Channel(60, -1), Channel(60, -1)>>)
Flat == Raw(TRUE, 0, 0, TRUE, <<Channel(0, 1)>>)

MixerScans ==
    {<<<<"Sink", Loud>>>>,
     <<<<"Sink", Zero>>, <<"Source", Absent>>>>,
     <<<<"Sink", Silenced>>, <<"Source", Loud>>>>,
     <<<<"Sink", Coarse>>, <<"Source", HalfAndFull>>>>,
     <<<<"Sink", Absent>>>>,
     <<<<"Sink", HalfMuted>>, <<"Source", NoSwitch>>>>,
     <<<<"Sink", Flat>>>>}

SoundNext ==
    \/ AlsaOpen
    \/ AlsaIterate(MixerScans)
    \/ AlsaReady
    \/ OrphanEnds
    \/ SoundDrain
    \/ SoundSend
    \/ SoundClosed

(***************************************************************************)
(* The power listener: listeners/upower.rs start and upower_state.         *)
(***************************************************************************)
\* what the display device reports
Reading(present, level, state, kind) ==
    [present |-> present, level |-> level, state |-> state, kind |-> kind]

\* matches!(bat_state, PendingCharge | Charging | FullyCharged)
Charging(state) == state \in {"PendingCharge", "Charging", "FullyCharged"}

Ten == 10

\* the level as it is
LevelExact(level) == level

\* (level / 10.).floor() * 10.
LevelStep(level) == (level \div Ten) * Ten

\* the match on bat_type and bat_state that names the icon
PowerIcon(r) ==
    CASE r.kind = "LinePower" -> IconName("ac-adapter", -1, "-symbolic")
      [] r.state = "Empty" -> IconName("battery-empty", -1, "-symbolic")
      [] r.state = "FullyCharged" -> IconName("battery-full-charged", -1, "-symbolic")
      [] r.state \in {"PendingCharge", "Charging", "PendingDischarge", "Discharging"} ->
           IconName("battery-level-", LevelStep(r.level),
                    IF Charging(r.state) THEN "-charging-symbolic" ELSE "-symbolic")
      [] OTHER -> IconName("battery-missing", -1, "-symbolic")

\* let new_power = Power { present, level, icon, charging }
PowerOf(r) == Power(r.present, Charging(r.state), r.level, PowerIcon(r))

\* a comparison of the whole record
AnyFieldChanged(old, new) == old # new

\* changed = power.present != new_power.present || power.charging != new_power.charging
PowerChangedFlag(old, new) == old.present # new.present \/ old.charging # new.charging

\* the record is left as it was
PowerKept(s, p) == s

\* state.power.icon.strip_suffix("-symbolic") is Some(..)
EndsWithSymbolic(icon) == icon.tail \in {"-symbolic", "-charging-symbolic"}

\* *power = new_power
PowerReplaced(s, p) == [s EXCEPT !.power = p]

\* Client::new_future().await and client.display_device(); the three notify
\* handlers are connected and the loop takes the write guard for upower_state
PowerConnect ==
    /\ Running
    /\ lpc["upower"] = "connect"
    /\ \/ /\ CanWrite
          /\ wlock' = "upower"
          /\ Goto("upower", "read")
       \/ /\ \E e \in {"bind to upower", "no display device"} : Fail("upower", e)
          /\ UNCHANGED wlock
    /\ UNCHANGED <<cvars, dvars, st, poisoned, budget, swayLocal, soundLocal, powerLocal, timeLocal, changerLocal>>

\* upower_state up to the replacement: the device's properties are read and
\* the record replaced, under the guard.  readings are what the device may report
PowerRead(readings) ==
    /\ Running
    /\ lpc["upower"] = "read"
    /\ \E r \in readings :
          /\ pchanged' = PowerChangedFlag(st.power, PowerOf(r))
          /\ st' = PowerReplaced(st, PowerOf(r))
          /\ reading' = r
    /\ Goto("upower", "send")
    /\ UNCHANGED <<cvars, dvars, wlock, poisoned, budget, swayLocal, soundLocal, permit, timeLocal, changerLocal>>

\* tx.send(AppInput::Power), and tx.send(AppInput::PowerChanged) if changed;
\* the guard is dropped at the end of the statement in start
PowerSend ==
    /\ Running
    /\ lpc["upower"] = "send"
    /\ IF RxClosed
       THEN Fail("upower", "initial report") /\ UNCHANGED cvars
       ELSE /\ Sent("upower", IF pchanged
                              THEN <<Msg("Power"), Msg("PowerChanged")>>
                              ELSE <<Msg("Power")>>)
            /\ Goto("upower", "wait")
    /\ wlock' = Released("upower")
    /\ pchanged' = FALSE
    /\ UNCHANGED <<dvars, st, poisoned, budget, swayLocal, soundLocal, permit, reading, timeLocal, changerLocal>>

\* a wake that reaches only a task that is waiting already
NotifyWaiters(stored, waiting) == stored

\* Notify::notify_one: with no task waiting the permit is stored, and a task
\* that waits is woken through it; a permit already stored stays the one permit
NotifyOne(stored, waiting) == TRUE

\* one of the three notify handlers runs, on the main context, once they are
\* connected and whatever the listener task is doing: notify.notify_one()
PowerNotify ==
    /\ Running
    /\ lpc["upower"] \in {"read", "send", "wait"}
    /\ budget["upower"] > 0
    /\ budget' = [budget EXCEPT !["upower"] = @ - 1]
    /\ permit' = NotifyOne(permit, lpc["upower"] = "wait")
    /\ UNCHANGED <<cvars, dvars, svars, lpc, lerr, swayLocal, soundLocal, pchanged, reading, timeLocal, changerLocal>>

\* notify.notified().await returns, consuming the permit, and the loop takes
\* the write guard again
PowerWake ==
    /\ Running
    /\ lpc["upower"] = "wait"
    /\ permit
    /\ CanWrite
    /\ permit' = FALSE
    /\ wlock' = "upower"
    /\ Goto("upower", "read")
    /\ UNCHANGED <<cvars, dvars, st, poisoned, budget, swayLocal, soundLocal, pchanged, reading, timeLocal, changerLocal>>

\* what the display device may report within the model's bounds
DeviceReadings ==
    {Reading(TRUE, 55, "Discharging", "Battery"),
     Reading(TRUE, 5, "Discharging", "Battery"),
     Reading(TRUE, 100, "FullyCharged", "Battery"),
     Reading(TRUE, 47, "Discharging", "Battery"),
     Reading(TRUE, 83, "Charging", "Battery"),
     Reading(TRUE, 0, "Empty", "Battery"),
     Reading(FALSE, 0, "Unknown", "Battery"),
     Reading(TRUE, 100, "Discharging", "LinePower")}

PowerNext ==
    \/ PowerConnect
    \/ PowerRead(DeviceReadings)
    \/ PowerSend
    \/ PowerNotify
    \/ PowerWake

(***************************************************************************)
(* The changer of a bar window: changer.rs, and the two emits of bar.rs.   *)
(* Time is a clock that steps; the watcher task acts as soon as it can,    *)
(* the component handles its messages when the main loop gets to them.     *)
(***************************************************************************)
\* what is left to the component: everything but the variables of the changer
Others == <<cvars, dvars, svars, tvars, swayLocal, soundLocal, powerLocal, timeLocal>>

\* bar.rs: self.changer.sender().emit(ChangerInput::Show { .. }), on Pulse
\* and on PowerChanged
ChangerShow ==
    /\ shows > 0
    /\ Len(cin) < MaxPending
    /\ shows' = shows - 1
    /\ cin' = Append(cin, "Show")
    /\ UNCHANGED <<visible, watcher, elapsed, sinceShow, Others>>

\* update_with_view: the oldest message is handled.  Hide hides the window;
\* Show shows it and calls self.watcher.notify_one()
ChangerUpdate ==
    /\ cin # <<>>
    /\ cin' = Tail(cin)
    /\ IF Head(cin) = "Hide"
       THEN /\ visible' = FALSE
            /\ UNCHANGED <<watcher, sinceShow>>
       ELSE /\ visible' = TRUE
            /\ watcher' = TRUE
            /\ sinceShow' = 0
    /\ UNCHANGED <<elapsed, shows, Others>>

\* the watcher task: notify.notified() completes inside the timeout, which is
\* polled before the deadline; the loop starts a new timeout
WatcherNotified ==
    /\ watcher
    /\ watcher' = FALSE
    /\ elapsed' = 0
    /\ UNCHANGED <<visible, cin, sinceShow, shows, Others>>

\* the watcher task: the timeout elapses, event.is_err(), and
\* sender.input(ChangerInput::Hide); the loop starts a new timeout
WatcherTimeout ==
    /\ ~watcher
    /\ elapsed = IntervalTicks
    /\ Len(cin) < MaxPending
    /\ cin' = Append(cin, "Hide")
    /\ elapsed' = 0
    /\ UNCHANGED <<visible, watcher, sinceShow, shows, Others>>

\* the clock steps, unless the watcher's timeout is due
ChangerTick ==
    /\ elapsed < IntervalTicks
    /\ elapsed' = elapsed + 1
    /\ sinceShow' = IF sinceShow < IntervalTicks THEN sinceShow + 1 ELSE sinceShow
    /\ UNCHANGED <<visible, cin, watcher, shows, Others>>

ChangerNext ==
    \/ ChangerShow
    \/ ChangerUpdate
    \/ WatcherNotified
    \/ WatcherTimeout
    \/ ChangerTick

(***************************************************************************)
(* Specifications.  The whole program is the dispatcher and the four       *)
(* listeners side by side; each specification below runs the dispatcher    *)
(* and the listeners its properties are about, the other tasks not having  *)
(* been scheduled yet.                                                     *)
(***************************************************************************)
\* the dispatcher and the compositor listener
Next ==
    \/ DispatcherStart
    \/ RecvOutputs(MonitorSets)
    \/ RecvOther
    \/ Forward
    \/ Add
    \/ Abort
    \/ SwayNext

Spec == Init /\ [][Next]_vars

\* one answer of each kind, for the specifications that run several listeners
BothOutputs == {Names}
OneInputReply == {InputReply(TRUE, <<EnglishUS, Russian>>, 0)}
WindowEvents == {"Window"}
OneScan == {<<<<"Sink", Loud>>, <<"Source", Loud>>>>}
TwoScans == {<<<<"Sink", Loud>>, <<"Source", Loud>>>>, <<<<"Sink", Silenced>>>>}
OneReading == {Reading(TRUE, 5, "Discharging", "Battery")}
OneFile == {<<MemLine(3, "MemTotal:", 1000), MemLine(3, "MemAvailable:", 250)>>}

DispatcherSteps ==
    \/ DispatcherStart
    \/ RecvOutputs(BothOutputs)
    \/ RecvOther
    \/ Forward
    \/ Add
    \/ Abort

\* the compositor listener's steps that do not wait for the compositor to
\* volunteer an event
SwaySteps ==
    \/ SwayConnect
    \/ SwayFetchOutput(BothOutputs)
    \/ SwayFetchWorkspace
    \/ SwayFetchInput(OneInputReply)
    \/ SwaySendLayout

SwayEnv ==
    \/ SwayEvent(WindowEvents)
    \/ SwayStreamEnds

\* the dispatcher, the compositor listener and the sound listener
HubNext ==
    \/ DispatcherSteps
    \/ SwaySteps
    \/ SwayEnv
    \/ AlsaOpen
    \/ AlsaIterate(OneScan)
    \/ AlsaReady
    \/ SoundDrain
    \/ SoundSend
    \/ SoundClosed

HubSpec == Init /\ [][HubNext]_vars

\* the compositor listener alone: nothing is dequeued, and the queue holds
\* all it has sent
SwayAloneNext ==
    \/ SwayConnect
    \/ SwayFetchOutput(OutputSets)
    \/ SwayFetchWorkspace
    \/ SwayFetchInput(InputReplies \cup OddReplies)
    \/ SwaySendLayout
    \/ SwayEvent(SwayEvents)
    \/ SwayStreamEnds

SwaySpec == Init /\ [][SwayAloneNext]_vars

\* the timer listener beside the power listener
ClockNext ==
    \/ TimeNext
    \/ PowerNext

ClockSpec == Init /\ [][ClockNext]_vars

\* the changer of one bar window
ChangerSpec == Init /\ [][ChangerNext]_vars

\* the sound listener alone
SoundSpec == Init /\ [][SoundNext]_vars

\* the steps the two sound tasks take of their own; that a descriptor becomes
\* ready is up to the sound server
SoundSteps ==
    \/ AlsaOpen
    \/ AlsaIterate(MixerScans)
    \/ SoundDrain
    \/ SoundSend
    \/ SoundClosed

\* the sound listener alone, each of its tasks taking the steps it can take
SoundFairSpec == Init /\ [][SoundNext]_vars /\ WF_vars(SoundSteps)

\* the three listeners that keep the write guard while they send
LockNext ==
    \/ TimeLoop
    \/ TimeSample(OneFile)
    \/ TimeSendSysinfo
    \/ TimeTick
    \/ AlsaOpen
    \/ AlsaIterate(OneScan)
    \/ AlsaReady
    \/ SoundDrain
    \/ SoundSend
    \/ SoundClosed
    \/ PowerConnect
    \/ PowerRead(OneReading)
    \/ PowerSend
    \/ PowerNotify
    \/ PowerWake

LockSpec == Init /\ [][LockNext]_vars

\* the two listeners whose sub-records have several fields
TornNext ==
    \/ SwaySteps
    \/ SwayEnv
    \/ PowerNext

TornSpec == Init /\ [][TornNext]_vars

\* the power listener's steps that do not wait for a property to change
PowerSteps ==
    \/ PowerConnect
    \/ PowerRead(OneReading)
    \/ PowerSend
    \/ PowerWake

\* the dispatcher, the compositor listener and the power listener; every
\* task that can take a step of its own eventually takes it, while the
\* compositor and the power service are free never to report anything
FairNext ==
    \/ DispatcherSteps
    \/ SwaySteps
    \/ SwayEnv
    \/ PowerSteps
    \/ PowerNotify

FairSpec ==
    /\ Init
    /\ [][FairNext]_vars
    /\ WF_vars(DispatcherSteps)
    /\ WF_vars(SwaySteps)
    /\ WF_vars(PowerSteps)

\* The dispatcher beside the two listeners that send with the write guard
\* alive; neither sends Outputs, so the reconciler has nothing to do.  From taking a guard to dropping it a listener runs synchronous code
\* within one poll, so the step that drops the guard is taken once it can be
GuardNext ==
    \/ DispatcherStart
    \/ RecvOther
    \/ Abort
    \/ TimeLoop
    \/ TimeSample(OneFile)
    \/ TimeSendSysinfo
    \/ TimeTick
    \/ AlsaOpen
    \/ AlsaIterate(OneScan)
    \/ AlsaReady
    \/ SoundDrain
    \/ SoundSend
    \/ SoundClosed

GuardSpec ==
    /\ Init
    /\ [][GuardNext]_vars
    /\ WF_vars(TimeSendSysinfo)
    /\ WF_vars(SoundSend)

\* the compositor listener is through its three fetches, and of the timer,
\* sound and power listeners those other than ts have not been polled yet
NotStarted(ts) ==
    /\ lpc["sway"] \in {"wait", "failed"}
    /\ \A t \in Tasks \ (ts \cup {"sway"}) : lpc[t] = InitialPc(t)

\* The dispatcher beside the start of the compositor listener (its three
\* fetches), and then beside one of the other listeners.  A listener writes
\* none of the fields another listener writes and reads none of them, so what
\* the dispatcher finds in a listener's fields when it dequeues that
\* listener's notification does not depend on what the other listeners do
\* meanwhile.
SwayTurn == SwaySteps

TimeTurn ==
    /\ NotStarted({"time"})
    /\ (TimeLoop \/ TimeSample(OneFile) \/ TimeSendSysinfo \/ TimeTick)

SoundTurn ==
    /\ NotStarted({"sound", "alsa"})
    /\ (AlsaOpen \/ AlsaIterate(TwoScans) \/ AlsaReady \/ SoundDrain \/ SoundSend)

PowerTurn ==
    /\ NotStarted({"upower"})
    /\ (PowerSteps \/ PowerNotify)

TurnNext ==
    \/ DispatcherSteps
    \/ SwayTurn
    \/ TimeTurn
    \/ SoundTurn
    \/ PowerTurn

TurnSpec == Init /\ [][TurnNext]_vars

(***************************************************************************)
(* Properties of the reconciler (Spec).                                    *)
(***************************************************************************)
\* C1: whenever the dispatcher is between notifications, the keys of windows
\* are the names of the most recent Outputs notification that were among
\* GDK's monitors when the notification that added them was processed.
C1_KeysAreLatestResolvable ==
    (dpc = "recv") => (DOMAIN windows = {n \in lastOutputs : resolvableAt[n]})

\* C1: an Outputs notification has been processed that removed a window and
\* named an output GDK did not know.
C1_Witness ==
    /\ dpc = "recv"
    /\ ev.kind = "Outputs"
    /\ snap \ Instances(windows) # {}
    /\ skipped # {}
    /\ DOMAIN windows # lastOutputs

\* C2 (as the code has it): an Outputs notification that names an output
\* which already has a window leaves that window in place (the same
\* instance, not a new one), and the dispatcher never fails with
\* "nonexistent element exists".
C2_RepeatedNameKeepsWindow ==
    /\ derr # "nonexistent element exists"
    /\ (ev.kind = "Outputs" /\ dpc \in {"add", "recv"}) =>
          \A n \in survivors : n \in DOMAIN windows /\ windows[n] \in snap

\* C2: a second Outputs notification naming an output that kept its window
\* has been processed to the end.
C2_Witness ==
    /\ dpc = "recv"
    /\ ev.kind = "Outputs"
    /\ survivors # {}
    /\ \E n \in survivors : windows[n][3] < ev.seq

\* C2 (as stated): the processing of an Outputs notification that names an
\* output which already has a window does not come to its normal end.
C2_Original ==
    (ev.kind = "Outputs" /\ survivors # {}) => dpc # "recv"

\* C4: the dispatcher takes a notification from the queue only when it has
\* nothing left to forward or to add; the window map changes only in steps of
\* the dispatcher's reconciliation, never while a fan-out is in progress and
\* never in a step of a listener.
C4_SerialDispatch ==
    /\ [](~(fwdTodo # {} /\ addTodo # {}))
    /\ [][/\ (Len(chan') < Len(chan)) =>
                (dpc = "recv" /\ fwdTodo = {} /\ addTodo = {})
          /\ (windows' # windows) =>
                (dpc \in {"recv", "add"} /\ fwdTodo = {} /\ lvars' = lvars)
          /\ (emitted' # emitted /\ emitted' # <<>>) =>
                (dpc = "forward" /\ windows' = windows /\ lvars' = lvars)]_vars

\* C4: a fan-out is in progress while an Outputs notification waits in the queue.
C4_Witness ==
    /\ dpc = "forward"
    /\ fwdTodo # {}
    /\ emitted # <<>>
    /\ chan # <<>>
    /\ chan[1].kind = "Outputs"

\* C10: a name skipped for want of a monitor gets no window and does not make
\* the dispatcher fail, and once the notification is processed every other
\* added name has a window exactly if GDK reported its connector.
C10_MismatchSkipsOnlyThatName ==
    /\ (skipped # {}) => (dpc \in {"add", "recv"} /\ derr = NoErr)
    /\ skipped \cap DOMAIN windows = {}
    /\ (ev.kind = "Outputs" /\ dpc = "recv") =>
          \A n \in ev.outs \ survivors :
             /\ (n \in mon) => (n \in DOMAIN windows /\ n \notin skipped)
             /\ (n \notin mon) => (n \in skipped)

\* C10: one added name was skipped and another added name of the same
\* notification got its window.
C10_Witness ==
    /\ dpc = "recv"
    /\ ev.kind = "Outputs"
    /\ skipped # {}
    /\ \E n \in ev.outs \ survivors : n \in DOMAIN windows /\ windows[n][3] = ev.seq

\* C11: once an Outputs notification is processed, every name it carries that
\* was skipped for want of a monitor while an earlier notification was
\* processed, and whose connector GDK now reports, has a window.
C11_SkippedNameIsRetried ==
    (ev.kind = "Outputs" /\ dpc = "recv") =>
       \A n \in everSkipped \cap ev.outs :
          (n \in mon) => (n \in DOMAIN windows)

\* C11: a name skipped while an earlier notification was processed got its
\* window from the current one.
C11_Witness ==
    /\ dpc = "recv"
    /\ ev.kind = "Outputs"
    /\ \E n \in (everSkipped \ skipped) \cap ev.outs :
          n \in DOMAIN windows /\ windows[n][3] = ev.seq

\* C12 (as stated): the power listener never ends with "no display device".
\* upower::start returns that error when the service has no display device.
C12_Original == lerr["upower"] # "no display device"

\* the classes of event the listener subscribes to
Subscribed == {"Input", "Output", "Window", "Workspace"}

\* where each subscribed class sends the listener
HandlerOf(class) ==
    CASE class = "Input" -> "fi_query"
      [] class = "Output" -> "fo_query"
      [] OTHER -> "fw_query"

\* C13: the turn of the loop that meets an undecodable event sends nothing,
\* writes nothing, fetches nothing and leaves the listener waiting on the
\* open subscription without an error; the well-formed event that comes next
\* starts the fetch of its class.
C13_MalformedEventSkipped ==
    [][/\ (swayEv # "Malformed" /\ swayEv' = "Malformed") =>
             /\ lpc'["sway"] = "wait"
             /\ lerr'["sway"] = NoErr
             /\ UNCHANGED <<chan, sent, st, wlock, fetchNo>>
       /\ (swayEv = "Malformed" /\ swayEv' \in Subscribed) =>
             lpc'["sway"] = HandlerOf(swayEv')]_vars

\* C13: after its first fetches the listener has passed over an undecodable
\* event and waits on the subscription, which can still deliver.
C13_Witness ==
    /\ swayEv = "Malformed"
    /\ lpc["sway"] = "wait"
    /\ budget["sway"] > 0
    /\ sent["sway"] >= 2

\* C14: after a well-formed event of no subscribed class the listener has
\* ended with "Unexpected event", having sent and written nothing for it.
C14_UnexpectedEventFatal ==
    (swayEv = "Other") =>
       /\ lpc["sway"] = "failed"
       /\ lerr["sway"] = "Unexpected event"

\* C14: the listener ended on an event of no subscribed class.
C14_Witness ==
    /\ swayEv = "Other"
    /\ lerr["sway"] = "Unexpected event"

\* the unexpected-format error of the memory-info loop
FormatError == "/proc/meminfo has unexpected format"

\* the lines of f that name one of the two fields the loop counts
FieldLines(f) ==
    {j \in DOMAIN f : f[j].n = 3 /\ f[j].name \in {"MemTotal:", "MemAvailable:"}}

\* line i of f has neither two nor three fields
OddLine(f, i) == f[i].n \notin {2, 3}

\* line i of f is read: the lines before it hold fewer than two of the counted
\* fields, and none of them ended the loop with an error
IsRead(f, i) ==
    /\ Cardinality({j \in FieldLines(f) : j < i}) < 2
    /\ \A j \in DOMAIN f : j < i => (~OddLine(f, j) /\ (j \in FieldLines(f) => f[j].value >= 0))

\* C15 (as stated): whenever the file last opened holds a line with neither
\* two nor three fields, the timer listener has ended.
C15_Original ==
    (meminfo # <<>> /\ \E i \in DOMAIN meminfo : OddLine(meminfo, i)) =>
       lpc["time"] = "failed"

\* C15 (amended): the timer listener has ended with the unexpected-format error
\* exactly when the file last opened holds a line with neither two nor three
\* fields among the lines the loop reads, that is before it has found both
\* fields; such a line after both fields is never read and changes nothing.
C15_OddLineReadIsFatal ==
    (meminfo # <<>>) =>
       ((lerr["time"] = FormatError) <=>
           \E i \in DOMAIN meminfo : OddLine(meminfo, i) /\ IsRead(meminfo, i))

\* C15: the listener ended on a one-field line that came before MemAvailable.
C15_Witness ==
    /\ lerr["time"] = FormatError
    /\ lpc["time"] = "failed"
    /\ \E i \in DOMAIN meminfo : OddLine(meminfo, i) /\ IsRead(meminfo, i)

\* the kinds of the values a step appends to the queue
Appended == [i \in 1..(Len(chan') - Len(chan)) |-> chan'[Len(chan) + i].kind]

C17_OutputsThenWorkspaces ==
    \A i \in DOMAIN chan :
       (chan[i].kind = "Outputs") =>
          /\ chan[i].outs \in OutputSets
          /\ IF i < Len(chan)
             THEN chan[i + 1].kind = "Workspaces"
             ELSE lpc["sway"] \in {"fw_query", "failed"}

\* C17: the fetch after an output event sent Outputs, then Workspaces.
C17_Witness ==
    /\ swayEv = "Output"
    /\ lpc["sway"] = "wait"
    /\ Len(chan) >= 2
    /\ chan[Len(chan) - 1].kind = "Outputs"
    /\ chan[Len(chan)].kind = "Workspaces"

\* C18: the read of the device sets `changed` exactly when present or charging
\* of the record it stores differs from the record stored before; the sends
\* that follow leave the record alone and are Power alone when `changed` is
\* false and Power, then PowerChanged, when it is true.
C18_PowerAlwaysChangedIffFlagged ==
    [][/\ (lpc["upower"] = "read" /\ lpc'["upower"] = "send") =>
             (pchanged' <=> (\/ st.power.present # st'.power.present
                             \/ st.power.charging # st'.power.charging))
       /\ (lpc["upower"] = "send" /\ lpc'["upower"] = "wait") =>
             /\ st'.power = st.power
             /\ Appended = IF pchanged THEN <<"Power", "PowerChanged">> ELSE <<"Power">>]_vars

\* C18: after Power and PowerChanged for the first read, a second read, at
\* five percent, was announced with Power alone.
C18_Witness ==
    /\ lpc["upower"] = "wait"
    /\ sent["upower"] = 3
    /\ st.power.level = 5

\* the turns of the timer loop that have run to the tick
TurnsDone == MaxTicks - budget["time"] + 1

\* C19: the timer listener's values are Time and Sysinfo in turn, Time first;
\* no Time is sent before its write of `time`; and when a turn of the loop has
\* reached the tick without failing, the listener has sent one Time and one
\* Sysinfo per turn, `time` has been written once per turn, and the load
\* average and the memory usage are those sampled in this turn.
C19_OneTimeOneSysinfoPerTick ==
    /\ \A i \in DOMAIN chan :
          (chan[i].from = "time") =>
             chan[i].kind = (IF chan[i].seq % 2 = 1 THEN "Time" ELSE "Sysinfo")
    /\ (sent["time"] + 1) \div 2 <= st.time
    /\ (lpc["time"] = "tick") =>
          /\ st.time = TurnsDone
          /\ sent["time"] = 2 * TurnsDone
          /\ st.load_average = st.time
          /\ st.memory_usage = <<ReadMeminfo(meminfo).avail, ReadMeminfo(meminfo).total>>

\* C19: the second turn of the loop has reached its tick.
C19_Witness ==
    /\ lpc["time"] = "tick"
    /\ st.time = 2
    /\ sent["time"] = 4
    /\ Len(chan) >= 4

\* C27 (as stated): once an Outputs notification is processed, every key of
\* windows is one of its names and the connector of a monitor GDK listed
\* while it was processed.  adjust_windows looks up a monitor only for the
\* names it adds; a key it retains is not looked up again.
C27_Original ==
    (ev.kind = "Outputs" /\ dpc = "recv") =>
       (DOMAIN windows \subseteq ev.outs /\ DOMAIN windows \subseteq mon)

\* C27: a window was kept for a name of the notification whose connector was
\* not among the monitors GDK listed for it.
C27_StaleWitness ==
    /\ ev.kind = "Outputs"
    /\ dpc = "recv"
    /\ DOMAIN windows \subseteq ev.outs
    /\ \E n \in survivors : n \in DOMAIN windows /\ n \notin mon

\* C31: the dispatcher never fails with "nonexistent element exists": no name
\* that adjust_windows still has to add is a key of windows.
C31_NoDuplicateInsert ==
    /\ derr # "nonexistent element exists"
    /\ (dpc = "add") => (addTodo \cap DOMAIN windows = {})

\* C31: an Outputs notification that named an output with a window and one
\* without has been processed, the second getting its window beside the first.
C31_Witness ==
    /\ dpc = "recv"
    /\ ev.kind = "Outputs"
    /\ survivors # {}
    /\ \E n \in DOMAIN windows : n \notin survivors /\ windows[n][3] = ev.seq

\* C32: a step that dequeues an Outputs notification keeps, with the same
\* instance, every window whose name it carries; when it carries the names of
\* the notification before it and GDK lists the monitors it listed then, the
\* windows are left as they are and no name left to add has a monitor.  No
\* other step removes or replaces a window.
C32_IdempotentKeepsSurvivors ==
    [][IF ev' # ev /\ ev'.kind = "Outputs"
       THEN /\ \A n \in DOMAIN windows \cap ev'.outs :
                  n \in DOMAIN windows' /\ windows'[n] = windows[n]
            /\ (ev'.outs = lastOutputs /\ mon' = mon /\ dpc' # "failed") =>
                  (windows' = windows /\ addTodo' \cap mon' = {})
       ELSE \A n \in DOMAIN windows :
                  n \in DOMAIN windows' /\ windows'[n] = windows[n]]_vars

\* C32: an Outputs notification was processed after another; it kept every
\* window there was, created none, and skipped a name once more.
C32_Witness ==
    /\ dpc = "recv"
    /\ ev.kind = "Outputs"
    /\ ev.seq > 1
    /\ snap # {}
    /\ Instances(windows) = snap
    /\ skipped # {}
    /\ skipped \subseteq everSkipped

\* the shared state holds what notification m announced, or something newer:
\* the clock and the load average are the numbers of the turns that wrote
\* them, and the timer listener sends Time and Sysinfo in turn
HoldsUpdate(m) ==
    CASE m.kind = "Time" -> 2 * st.time >= m.seq + 1
      [] m.kind = "Sysinfo" -> 2 * st.load_average >= m.seq
      [] m.kind = "Workspaces" ->
           fetchNo >= 1 /\ st.ws = WsRecord(fetchNo, fetchNo, fetchNo, fetchNo)
      [] m.kind = "Layout" -> st.layout # DefaultState.layout
      [] m.kind = "LayoutList" -> st.layouts # DefaultState.layouts
      [] m.kind = "Pulse" ->
           drained[m.pk] > 0 /\ Slot(st, m.pk) = PulseMake(lastRaw[m.pk], m.pk)
      [] m.kind \in {"Power", "PowerChanged"} ->
           reading # NoReading /\ st.power = PowerOf(reading)
      [] OTHER -> TRUE

\* C33: for every notification that waits in the channel, and for the one
\* the dispatcher has dequeued, the shared state holds the update the
\* notification announced or a newer one.
C33_WriteBeforeSend ==
    /\ \A i \in DOMAIN chan : HoldsUpdate(chan[i])
    /\ HoldsUpdate(ev)

\* C33: the dispatcher has dequeued the Time of the first turn of the timer
\* loop when the second turn has written the clock again.
C33_Witness ==
    /\ ev.kind = "Time"
    /\ ev.seq = 1
    /\ st.time = 2

\* the kinds a new bar window asks itself to render, with the payload of Pulse
SelfKinds ==
    {<<"Layout", "-">>, <<"LayoutList", "-">>, <<"Time", "-">>,
     <<"Workspaces", "-">>, <<"Sysinfo", "-">>, <<"Pulse", "Source">>,
     <<"Pulse", "Sink">>, <<"Power", "-">>}

\* C34: in the input queue of every bar window the values the window gave
\* itself are the first eight, one of each of Layout, LayoutList, Time,
\* Workspaces, Sysinfo, Pulse(Source), Pulse(Sink) and Power and no
\* PowerChanged; every value the dispatcher forwarded comes after them.
C34_SelfInputsFirst ==
    \A n \in DOMAIN windows :
       /\ n \in DOMAIN inbox
       /\ Len(inbox[n]) >= Cardinality(SelfKinds)
       /\ \A i \in DOMAIN inbox[n] :
             (inbox[n][i].by = "init") <=> (i <= Cardinality(SelfKinds))
       /\ \A k \in SelfKinds :
             Cardinality({i \in 1..Cardinality(SelfKinds) :
                            inbox[n][i].msg.kind = k[1] /\ inbox[n][i].msg.pk = k[2]}) = 1
       /\ \A i \in 1..Cardinality(SelfKinds) : inbox[n][i].msg.kind # "PowerChanged"

\* C34: a bar window has been forwarded a notification after it was created.
C34_Witness ==
    \E n \in DOMAIN windows :
       /\ Len(inbox[n]) > Cardinality(SelfKinds)
       /\ inbox[n][Len(inbox[n])].by = "forward"

\* C38: the step that dequeues a notification other than Outputs either
\* starts the forwarding to every window, or, for Pulse and PowerChanged
\* only, ends main_loop with an error of play_sound and with nothing handed
\* to any window; once main_loop has failed no window is handed anything.
C38_SoundBeforeForward ==
    /\ [][(ev' # ev /\ ev'.kind \notin {"Outputs", "None"}) =>
             \/ /\ derr' = NoErr
                /\ fwdTodo' = DOMAIN windows
                /\ dpc' \in {"forward", "recv"}
             \/ /\ ev'.kind \in {"Pulse", "PowerChanged"}
                /\ derr' \in {"open audio file", "decode audio", "play audio"}
                /\ dpc' = "failed"
                /\ fwdTodo' = {}
                /\ inbox' = inbox]_vars
    /\ [][(dpc \in {"failed", "aborted"}) => (inbox' = inbox /\ emitted' = emitted)]_vars

\* C38: main_loop has failed on the sound of PowerChanged while a bar window
\* was there to be handed it.
C38_Witness ==
    /\ dpc = "failed"
    /\ derr = "play audio"
    /\ ev.kind = "PowerChanged"
    /\ DOMAIN windows # {}
    /\ emitted = <<>>

(***************************************************************************)
(* Properties of the fan-out and of the queue (HubSpec).                   *)
(***************************************************************************)
\* how often the current notification was emitted to window instance c
Deliveries(c) == Cardinality({i \in DOMAIN emitted : emitted[i].to = c})

\* every emission carries the current notification's kind and tag to a window
\* that was alive when it was dequeued, at most once per window; Outputs is
\* emitted to none
EmissionsWellFormed ==
    /\ \A i \in DOMAIN emitted :
          /\ emitted[i].msg.kind = ev.kind
          /\ emitted[i].msg.pk = ev.pk
          /\ emitted[i].to \in snap
    /\ \A c \in snap : Deliveries(c) <= 1
    /\ (ev.kind \in {"Outputs", "None"}) => (emitted = <<>>)

\* the dispatcher is done with a notification that is not Outputs
HandledOther == ev.kind \notin {"Outputs", "None"} /\ dpc # "forward"

\* C3 (as the code has it): a notification that is not Outputs is emitted
\* exactly once, kind and tag unchanged, to every window alive when it was
\* dequeued, unless play_sound failed for it (Pulse, PowerChanged): then the
\* dispatcher has failed and the notification reached no window.
C3_DeliveredUnlessSoundFails ==
    /\ EmissionsWellFormed
    /\ HandledOther =>
          IF derr \in SoundErrors
          THEN HasSound(ev) /\ emitted = <<>> /\ dpc \in {"failed", "aborted"}
          ELSE \A c \in snap : Deliveries(c) = 1

\* C3: Pulse(Source) has been handed to each of two windows.
C3_Witness ==
    /\ dpc = "recv"
    /\ ev.kind = "Pulse"
    /\ ev.pk = "Source"
    /\ Cardinality(snap) = 2
    /\ \A c \in snap : Deliveries(c) = 1

\* C3 (as stated): every notification that is not Outputs is emitted exactly
\* once to every window alive when it was dequeued.
C3_Original ==
    /\ EmissionsWellFormed
    /\ HandledOther => \A c \in snap : Deliveries(c) = 1

\* C5: the values of one listener are dequeued in the order it sent them.
C5_PerProducerFifo ==
    \A t \in Listeners : \A i \in DOMAIN recvLog[t] : recvLog[t][i] = i

\* C5: two listeners have each had several values dequeued, the second of
\* the sound listener's while values of the compositor listener were queued.
C5_Witness ==
    /\ Len(recvLog["sway"]) >= 2
    /\ Len(recvLog["sound"]) >= 2
    /\ ev.from = "sound"
    /\ \E i \in DOMAIN chan : chan[i].from = "sway"

(***************************************************************************)
(* Properties of the sound listener's drain task (SoundSpec).              *)
(***************************************************************************)
\* C6: when the drain task takes a record, the record is what Pulse::make
\* gives for the element state it came from; if it differs in any field from
\* the stored record of its kind it replaces it and Pulse(kind) is the next
\* thing sent, else nothing is written and nothing is sent; a record made
\* from the same element state as the previous one of its kind changes
\* nothing.  Nothing else sends or writes.
C6_DrainEmitsIffDifferent ==
    [][/\ (drained' # drained) =>
             LET m == Head(pchan)
                 old == Slot(st, m.kind)
                 differs == \/ old.muted # m.pulse.muted
                            \/ old.volume # m.pulse.volume
                            \/ old.icon # m.pulse.icon
             IN  /\ m.pulse = PulseMake(m.raw, m.kind)
                 /\ differs =>
                       /\ Slot(st', m.kind) = m.pulse
                       /\ lpc'["sound"] = "send"
                       /\ dkind' = m.kind
                 /\ (~differs) => (st' = st /\ lpc'["sound"] = "recv")
                 /\ (drained[m.kind] > 0 /\ lastRaw[m.kind] = m.raw) =>
                       (st' = st /\ lpc'["sound"] = "recv")
                 /\ chan' = chan
       /\ (chan' # chan) =>
             /\ lpc["sound"] = "send"
             /\ chan' = Append(chan, AppInput("Pulse", {}, dkind, "sound", sent["sound"] + 1))
       /\ (lpc["sound"] = "send") => (chan' # chan \/ lpc'["sound"] = "send")
       /\ (st' # st) => (drained' # drained)]_vars

\* C6: the same element state was made into a record twice in a row and only
\* the first was announced.
C6_Witness ==
    /\ drained["Sink"] >= 2
    /\ drained["Source"] = 0
    /\ sent["sound"] = 1
    /\ lastRaw["Sink"] = Loud
    /\ st.sink = PulseMake(Loud, "Sink")
    /\ lpc["sound"] = "recv"
    /\ pchan = <<>>

\* a / b rounded to the nearest integer, for a >= 0 and b > 0
RoundDiv(a, b) == (2 * a + b) \div (2 * b)

\* C20 (as stated): the volume stored for an element with a volume control is
\* 100 * S / (W * C) rounded to the nearest integer, S the sum of the unmuted
\* channels' values above the minimum, W the width of the range and C the
\* number of readable channels.  Pulse::parse divides in integers, which
\* drops the fraction.
C20_Original ==
    \A k \in PulseKinds :
       (drained[k] > 0 /\ lastRaw[k].hasVolume) =>
          Slot(st, k).volume =
             RoundDiv(Percent * AccVolume(lastRaw[k], Readable(lastRaw[k])),
                      (lastRaw[k].high - lastRaw[k].low) * Cardinality(Readable(lastRaw[k])))

\* C20: a one-channel element at two of three steps is stored as 66 percent,
\* and the stereo element of the worked example as 75.
C20_TruncatedWitness ==
    /\ lastRaw["Sink"] = Coarse
    /\ st.sink.volume = 66
    /\ lastRaw["Source"] = HalfAndFull
    /\ st.source.volume = 75

(***************************************************************************)
(* Derived values: icons, the short layout code, the memory usage, the     *)
(* volume and the muted flag.                                              *)
(***************************************************************************)
\* the states of a battery that has a level to show
LevelStates == {"PendingCharge", "Charging", "PendingDischarge", "Discharging"}

\* C21: the icon stored with a reading is ac-adapter-symbolic for a line
\* power device whatever its state; else battery-empty-symbolic for Empty,
\* battery-full-charged-symbolic for FullyCharged, battery-level-L-symbolic
\* for the four states with a level, L the level less its remainder by ten,
\* with -charging before -symbolic exactly when charging, and
\* battery-missing-symbolic for any other state.
C21_PowerIconTable ==
    (reading # NoReading) =>
       LET icon == st.power.icon
           line == reading.kind = "LinePower"
       IN  /\ line => icon = IconName("ac-adapter", -1, "-symbolic")
           /\ (~line /\ reading.state = "Empty") =>
                 icon = IconName("battery-empty", -1, "-symbolic")
           /\ (~line /\ reading.state = "FullyCharged") =>
                 icon = IconName("battery-full-charged", -1, "-symbolic")
           /\ (~line /\ reading.state \in LevelStates) =>
                 /\ icon.stem = "battery-level-"
                 /\ icon.level = reading.level - (reading.level % 10)
                 /\ icon.tail = (IF st.power.charging THEN "-charging-symbolic" ELSE "-symbolic")
                 /\ st.power.charging <=> reading.state \in {"PendingCharge", "Charging"}
           /\ (~line /\ reading.state \notin LevelStates \cup {"Empty", "FullyCharged"}) =>
                 icon = IconName("battery-missing", -1, "-symbolic")

\* C21: a battery discharging at 47 percent is stored with the icon
\* battery-level-40-symbolic.
C21_Witness ==
    /\ reading = Reading(TRUE, 47, "Discharging", "Battery")
    /\ st.power.icon = IconName("battery-level-", 40, "-symbolic")

\* C22 (as stated): the short code stored with a layout name is the name's
\* first two characters in lower case; with no active layout the name stored
\* is "XX Not found", and the code "xx".  input::fetch cuts the name at two
\* bytes, which is one character when the first takes two bytes.
C22_Original ==
    (st.layout.description # <<>>) =>
       /\ Len(st.layout.description) >= 2
       /\ st.layout.name = ToAsciiLowercase(SubSeq(st.layout.description, 1, 2))

\* C22: "English (US)" is stored with the code "en".
C22_AsciiWitness ==
    /\ st.layout.description = EnglishUS
    /\ st.layout.name = <<"e", "n">>

\* C29 (as stated): the input fetch never ends in a panic, and the short code
\* stored is two letters.  A name of one byte, or one whose second byte is
\* inside a character, makes the slice in input::fetch panic.
C29_Original ==
    /\ lerr["sway"] # "byte index is not a char boundary"
    /\ ~poisoned
    /\ (st.layout.description # <<>>) =>
          /\ Len(st.layout.name) = 2
          /\ \A i \in DOMAIN st.layout.name :
                \E j \in DOMAIN LowerAscii : LowerAscii[j] = st.layout.name[i]

\* C29: the listener panicked in the slice while it held the write guard.
C29_PanicWitness ==
    /\ lpc["sway"] = "failed"
    /\ lerr["sway"] = "byte index is not a char boundary"
    /\ poisoned

\* the value of the one three-field line of f that is named name
ValueOf(f, name) == f[CHOOSE i \in DOMAIN f : f[i].n = 3 /\ f[i].name = name].value

\* f has one MemTotal line and one MemAvailable line
HasBoth(f) ==
    \A name \in {"MemTotal:", "MemAvailable:"} :
       Cardinality({i \in DOMAIN f : f[i].n = 3 /\ f[i].name = name}) = 1

\* C23: once a turn of the timer loop has written the memory usage from a file
\* that has both lines, the usage is 1 - MemAvailable / MemTotal of that
\* file's two values, kept as the pair (MemAvailable, MemTotal), wherever the
\* two lines stand and whatever two- and three-field lines stand beside them.
C23_MemoryUsageFromBothFields ==
    (lpc["time"] \in {"sysinfo", "tick"} /\ HasBoth(meminfo)) =>
       st.memory_usage = <<ValueOf(meminfo, "MemAvailable:"), ValueOf(meminfo, "MemTotal:")>>

\* C23: MemAvailable 250 stood before MemTotal 1000 with another line between
\* them, and the usage written is three quarters.
C23_Witness ==
    /\ lpc["time"] = "tick"
    /\ meminfo[1].name = "MemAvailable:"
    /\ Len(meminfo) = 3
    /\ 4 * (st.memory_usage[2] - st.memory_usage[1]) = 3 * st.memory_usage[2]

\* what is stored for an element without volume
MutedRecord(k) == Pulse(TRUE, 0, <<IF k = "Sink" THEN "audio" ELSE "mic", "volume", "muted">>)

\* C25: the record stored for an element that has no volume control for its
\* kind is volume 0, muted, with the icon audio-volume-muted for the sink and
\* mic-volume-muted for the source; making it never fails, whatever the
\* element's range.
C25_NoVolumeIsMutedZero ==
    \A k \in PulseKinds :
       (drained[k] > 0 /\ ~lastRaw[k].hasVolume) =>
          /\ Slot(st, k) = MutedRecord(k)
          /\ ~ParsePanics(lastRaw[k])

\* C25: both the sink and the source were last made from an element without
\* volume.
C25_Witness ==
    /\ drained["Sink"] > 0
    /\ drained["Source"] > 0
    /\ lastRaw["Sink"] = Absent
    /\ lastRaw["Source"] = Absent
    /\ st.sink = MutedRecord("Sink")
    /\ st.source = MutedRecord("Source")

\* C26: the muted flag stored for an element with a volume control is true
\* exactly when the element has a switch for its kind and the switch of every
\* channel whose volume can be read is off.
C26_MutedIffAllSwitchesOff ==
    \A k \in PulseKinds :
       (drained[k] > 0 /\ lastRaw[k].hasVolume) =>
          (Slot(st, k).muted <=>
              /\ lastRaw[k].hasSwitch
              /\ \A i \in DOMAIN lastRaw[k].channels :
                    (lastRaw[k].channels[i].vol >= 0) => (lastRaw[k].channels[i].sw = 0))

\* C26: a sink with one of its two switches off and a source without
\* switches are both stored as not muted.
C26_Witness ==
    /\ lastRaw["Sink"] = HalfMuted
    /\ lastRaw["Source"] = NoSwitch
    /\ drained["Source"] > 0
    /\ ~st.sink.muted
    /\ ~st.source.muted

\* C28 (as stated): making a record from an element with a volume control
\* never fails, and the volume stored is between 0 and 100.  Pulse::parse
\* divides by the width of the range and by the number of readable channels.
C28_Original ==
    /\ lerr["alsa"] # "attempt to divide by zero"
    /\ \A k \in PulseKinds :
          (drained[k] > 0 /\ lastRaw[k].hasVolume) => Slot(st, k).volume \in 0..100

\* C28: the mixer loop ended in the division, on an element whose range is a
\* single value.
C28_PanicWitness ==
    /\ lpc["alsa"] = "failed"
    /\ lerr["alsa"] = "attempt to divide by zero"

(***************************************************************************)
(* The wait on the mixer's descriptors (SoundFairSpec).                    *)
(***************************************************************************)
\* C40 (as stated): when the mixer loop is at the top of its loop no wait
\* sub-task is alive, and there are never more of them than descriptors.
\* The handles select_all returns are dropped without abort(), so the
\* sub-tasks of the descriptors that were not ready go on waiting.
C40_Original ==
    /\ (lpc["alsa"] = "iter") => (futs + orphans = 0)
    /\ futs + orphans <= NumFds

\* C40: the loop waits in its second iteration while a sub-task of the first
\* still waits on its descriptor.
C40_LeakWitness ==
    /\ lpc["alsa"] = "wait"
    /\ orphans > 0
    /\ budget["alsa"] = MaxAlsaLoops - 2

\* C24 (as stated): the mixer loop, blocked on the mixer's descriptors, is
\* eventually back at the top of its loop.  alsa_loop awaits select_all
\* without a timeout, so it stays blocked for as long as no descriptor is ready.
C24_Original == (lpc["alsa"] = "wait") ~> (lpc["alsa"] = "iter")

\* C24: the mixer loop is blocked on the descriptors with every record it
\* sent stored and announced.
C24_BlockedWitness ==
    /\ lpc["alsa"] = "wait"
    /\ lpc["sound"] = "recv"
    /\ pchan = <<>>
    /\ drained["Sink"] > 0

(***************************************************************************)
(* The changer's timeout (ChangerSpec).                                    *)
(***************************************************************************)
\* C30 (as stated): the window is never hidden less than one interval after
\* the latest Show was handled.  A Hide sent by a timeout that elapsed while
\* a Show was waiting in the component's queue is handled right after it.
C30_Original ==
    [][(visible /\ ~visible') => sinceShow >= IntervalTicks]_vars

\* C30: the window is hidden although a Show was handled within the same
\* step of the clock.
C30_EarlyHideWitness ==
    /\ ~visible
    /\ sinceShow = 0
    /\ shows < MaxShows

(***************************************************************************)
(* Properties of the lock discipline (LockSpec, TornSpec).                 *)
(***************************************************************************)
\* where a task is suspended at an await
AwaitPcs ==
    [t \in Tasks |->
       CASE t = "sway" -> {"connect", "fo_query", "fw_query", "fi_query", "wait"}
         [] t = "time" -> {"meminfo", "tick"}
         [] t = "sound" -> {"recv"}
         [] t = "alsa" -> {"open", "wait"}
         [] t = "upower" -> {"connect", "wait"}]

\* where the next thing a task does is a channel send, or a read of the
\* power device
SendOrReadPcs ==
    [t \in Tasks |->
       CASE t = "sway" -> {"fi_send"}
         [] t = "time" -> {"sysinfo"}
         [] t = "sound" -> {"send"}
         [] t = "upower" -> {"read", "send"}
         [] OTHER -> {}]

\* C7 (as the code has it): a listener that holds the write guard is running
\* synchronous code: it is never suspended at an await (query, file read,
\* tick, channel receive, notification wait) and never ended with the guard
\* held.
C7_NoGuardAcrossAwait ==
    \A t \in Tasks : (wlock = t) => (lpc[t] \notin AwaitPcs[t] /\ ~Ended(t))

\* C35: a task that holds the write guard is not suspended at an await and
\* has not ended, and every guard that is taken is dropped again unless the
\* process is aborted first; the read guards of the dispatcher live within
\* one statement and are no state of their own.
C35_GuardsAreDropped ==
    /\ [](\A t \in Tasks : (wlock = t) => (lpc[t] \notin AwaitPcs[t] /\ ~Ended(t)))
    /\ ((wlock # "none") ~> (wlock = "none" \/ ~Running))

\* C35: the dispatcher has a notification to dequeue whose handling reads the
\* state while the timer listener holds the write guard.
C35_Witness ==
    /\ wlock = "time"
    /\ dpc = "recv"
    /\ chan # <<>>
    /\ Dequeued(chan).kind # "Outputs"

\* C36: a change notification leaves a permit in the Notify whatever the
\* listener is doing, and a stored permit leads to the start of a re-read that
\* consumes it, unless the listener has returned or the process is aborted.
C36_NoWakeLost ==
    /\ [][(budget'["upower"] < budget["upower"]) => permit']_vars
    /\ (permit ~> ((~permit /\ lpc["upower"] = "read") \/ Ended("upower") \/ ~Running))

\* C36: a change was notified while the listener was reading the device under
\* the guard; the permit is there before the listener comes to wait.
C36_Witness ==
    /\ permit
    /\ lpc["upower"] = "send"
    /\ wlock = "upower"

\* C37: once PowerChanged is in the channel, the power record is the one the
\* power listener made from what the device reported, and its icon name ends
\* with "-symbolic"; this stays so for as long as the notification waits and
\* afterwards.
C37_ChangedIconHasSuffix ==
    (\E i \in DOMAIN chan : chan[i].kind = "PowerChanged") =>
       /\ reading # NoReading
       /\ st.power.icon = PowerIcon(reading)
       /\ EndsWithSymbolic(st.power.icon)

\* C37: PowerChanged was sent for a battery that charges, whose icon name
\* has "-charging" before the suffix.
C37_Witness ==
    /\ \E i \in DOMAIN chan : chan[i].kind = "PowerChanged"
    /\ st.power.icon.tail = "-charging-symbolic"
    /\ lpc["upower"] = "wait"

\* C39: the first send of the power listener, which follows its first read,
\* has PowerChanged after Power exactly if the device was reported present
\* or its state is one of the charging states.
C39_InitialChangedIffPresentOrCharging ==
    [][(sent["upower"] = 0 /\ sent'["upower"] > 0) =>
          /\ \E i \in DOMAIN chan' : chan'[i].from = "upower" /\ chan'[i].kind = "Power"
          /\ (\E i \in DOMAIN chan' : chan'[i].kind = "PowerChanged") <=>
                (reading.present \/ reading.state \in {"PendingCharge", "Charging", "FullyCharged"})]_vars

\* C39: the device was first reported absent and not charging, and the
\* listener waits after having sent Power alone.
C39_Witness ==
    /\ sent["upower"] = 1
    /\ lpc["upower"] = "wait"
    /\ ~reading.present
    /\ reading.state = "Unknown"

\* C7: the timer listener holds the write guard and is about to send Sysinfo,
\* while the drain task has a record waiting that it cannot store yet.
C7_Witness ==
    /\ wlock = "time"
    /\ lpc["time"] = "sysinfo"
    /\ lpc["sound"] = "recv"
    /\ pchan # <<>>

\* C7 (as stated): no listener holds the write guard where the next thing it
\* does is a send or a device read.
C7_Original ==
    \A t \in Tasks : (wlock = t) => (lpc[t] \notin SendOrReadPcs[t])

\* the four workspace fields come from one fetch
WsUntorn(w) == w.urgent = w.existing /\ w.existing = w.focused /\ w.focused = w.screens

\* the four power fields come from one reading of the device
PowerUntorn(p) == p = DefaultState.power \/ \E r \in DeviceReadings : p = PowerOf(r)

\* C8: whenever a read guard can be had, the workspace fields all come from
\* the same fetch and the power fields all come from the same device reading.
C8_NoTornUpdate ==
    CanRead => (WsUntorn(st.ws) /\ PowerUntorn(st.power))

\* C8: the workspace fields were replaced a second time and the power record
\* was replaced by a reading that differs from the one before in every field.
C8_Witness ==
    /\ CanRead
    /\ st.ws.urgent >= 2
    /\ st.ws.screens >= 2
    /\ st.power = PowerOf(Reading(TRUE, 100, "FullyCharged", "Battery"))
    /\ sent["upower"] >= 3

(***************************************************************************)
(* Listener death (FairSpec).                                              *)
(***************************************************************************)
\* C9 (as stated): once a listener has returned an error, the process is
\* eventually aborted.
C9_Original ==
    \A t \in Listeners : (lpc[t] = "failed") ~> (dpc = "aborted")

\* C9: a listener is dead and the dispatcher goes on forwarding: it has just
\* handed a notification, sent after that death, to a window.
C9_DegradedWitness ==
    /\ lpc["sway"] = "failed"
    /\ dpc = "recv"
    /\ ev.from = "upower"
    /\ emitted # <<>>

====
